---- MODULE Spec2Model ----
(***************************************************************************)
(* Backend of the Berlin public transport map: the position cache          *)
(* (backend/cache.js), the VBB poller with its rate tracker                *)
(* (backend/rateLimitTracker.js) and the Express serving interface         *)
(* (backend/index.js).                                                     *)
(*                                                                         *)
(* JavaScript runs every synchronous stretch of code to completion, so     *)
(* each action below is one such stretch: a call from outside, a timer     *)
(* callback, or the continuation of an await.                              *)
(***************************************************************************)
EXTENDS Integers, Sequences, FiniteSets, TLC

\* ---------------------------------------------------------------- bounds
\* Number of configured tiles in the poller followed tile by tile.
NumTiles == 2
\* Number of clock steps the model lets time run in the running server.
MaxClock == 2
\* Number of clock steps the model lets time run for the cache and the rate
\* tracker on their own.
MaxAge == 3
\* Number of recordRequest() calls a direct caller of the rate tracker makes
\* between two reset() calls.
MaxRequests == 4
\* Largest number of requests in the window the statistics are computed for.
MaxCount == 120
\* Number of poll cycles that may start.
MaxPolls == 2
\* Number of start() calls of the server.
MaxStarts == 1
\* Number of start() calls of a user of the poller module alone.
MaxRestarts == 2
\* Cap on updateCount + consecutiveEmptyUpdates for a direct caller of the cache.
MaxUpdates == 3
\* Number of poll cycles that may start in the server followed through an
\* outage and a whole rate window.
MaxCycles == 3
\* Number of update cycles the map client runs.
MaxMapUpdates == 5
\* Number of polls the trip tracker starts.
MaxTrackerPolls == 4

\* ------------------------------------------------------- program constants
POLL_INTERVAL_MS == 20000
WINDOW_MS == 60000
RATE_LIMIT == 100
HEALTHY_MS == 60000
MISS_LIMIT == 3
STALE_AGE_MS == 40000

\* The clock advances one poll period at a time.
ClockStep == POLL_INTERVAL_MS
Horizon == MaxClock * ClockStep
FarHorizon == MaxAge * ClockStep

\* ------------------------------------------------------------ data values
\* null of JavaScript, for object-valued fields
Null == [null |-> TRUE]
\* null of JavaScript, for Date-valued fields
NoTime == 0 - 1

TripIds == {"t1", "t2"}
\* (latitude, longitude) pairs the upstream reports
Positions == {[latitude |-> 1, longitude |-> 11], [latitude |-> 2, longitude |-> 12]}

\* One normalized movement, as fetchBox builds it.
Normalize(raw) ==
    [name |-> raw.line.name,
     direction |-> raw.direction,
     tripId |-> raw.tripId,
     latitude |-> raw.location.latitude,
     longitude |-> raw.location.longitude,
     type |-> raw.line.product]

\* Raw movements of the upstream radar endpoint.
RawMovements ==
    {[line |-> [name |-> "U2", product |-> "subway"],
      direction |-> "Pankow",
      tripId |-> id,
      location |-> p] : id \in TripIds, p \in Positions}

Movements == {Normalize(raw) : raw \in RawMovements}

\* Raw movements the running server is fed: every trip at one position.
RadarMovements ==
    {raw \in RawMovements : raw.location.latitude = 1}

\* Bound on the length of the lists drawn: one entry per trip.
MaxLen == Cardinality(TripIds)

RECURSIVE SeqsUpTo(_, _)
SeqsUpTo(S, n) ==
    IF n = 0 THEN {<<>>}
    ELSE LET shorter == SeqsUpTo(S, n - 1)
         IN shorter \cup {Append(s, x) : s \in {q \in shorter : Len(q) = n - 1}, x \in S}

\* ------------------------------------------------------------------ state
VARIABLES
    now,                \* wall clock, ms
    cache,              \* cache.js: the module's private cache object
    requestTimestamps,  \* rateLimitTracker.js: the rolling request window
    pollStats,          \* vbbPoller.js: cumulative cycle counters
    isPolling,          \* vbbPoller.js: the busy flag of poll()
    pollInterval,       \* vbbPoller.js: handle of the latest setInterval, or NoTime
    timers,             \* the live setInterval timers: handle -> next firing time
    handles,            \* number of setInterval calls made so far
    fetches,            \* per tile: the fetchBox promise of the cycle in flight
    lastOp,             \* what the step just taken was called with or answered
    dropped,            \* history: the trip ids some update has dropped from the cache
    recorded,           \* history: the times of the recordRequest() calls since reset()
    markers,            \* map.js: the markers of the map client, by trip id
    mapStats,           \* map.js: the update counters of the map client
    responses,          \* history: the trip ids of the non-empty responses the
                        \* map client has drawn, latest first
    allTrips,           \* tripTracker.js: every trip the tracker has seen, by trip id
    pollCount,          \* tripTracker.js: the polls the tracker has made
    trackerPending,     \* tripTracker.js: the polls that await their fetch
    trackerExited       \* tripTracker.js: process.exit() has been called

vars == <<now, cache, requestTimestamps, pollStats, isPolling, pollInterval,
          timers, handles, fetches, lastOp, dropped, recorded,
          markers, mapStats, responses, allTrips, pollCount, trackerPending,
          trackerExited>>

\* The state of the programs that run outside the server.
clientVars == <<markers, mapStats, responses, allTrips, pollCount, trackerPending,
                trackerExited>>

pollerVars == <<pollStats, isPolling, pollInterval, timers, handles, fetches>>

\* ------------------------------------------------- insertion-ordered Map
\* A JavaScript Map as the sequence of its entries in insertion order.
MapHas(m, k) == \E i \in 1..Len(m) : m[i].key = k

MapGet(m, k) == LET i == CHOOSE i \in 1..Len(m) : m[i].key = k IN m[i].value

MapSet(m, k, v) ==
    IF MapHas(m, k)
    THEN [i \in 1..Len(m) |-> IF m[i].key = k THEN [key |-> k, value |-> v] ELSE m[i]]
    ELSE Append(m, [key |-> k, value |-> v])

MapValues(m) == [i \in 1..Len(m) |-> m[i].value]

MapKeys(m) == {m[i].key : i \in 1..Len(m)}

\* --------------------------------------------------------------- cache.js
CacheInit ==
    [movements |-> <<>>,
     lastUpdated |-> NoTime,
     updateCount |-> 0,
     lastEmptyUpdate |-> NoTime,
     consecutiveEmptyUpdates |-> 0]

\* { ...newMovement, timestamp: new Date() }
Stamped(newMovement, t) ==
    [name |-> newMovement.name,
     direction |-> newMovement.direction,
     tripId |-> newMovement.tripId,
     latitude |-> newMovement.latitude,
     longitude |-> newMovement.longitude,
     type |-> newMovement.type,
     timestamp |-> t]

\* Mutant of ShiftedVehicle: a previous position once set is kept, so it
\* grows older with every update.
ShiftedVehicleKeepsOldest(existing, newMovement, t) ==
    [current |-> Stamped(newMovement, t),
     previous |-> IF existing.previous # Null
                  THEN existing.previous
                  ELSE [latitude |-> existing.current.latitude,
                        longitude |-> existing.current.longitude,
                        timestamp |-> existing.current.timestamp],
     firstSeen |-> existing.firstSeen]

\* Mutant of ShiftedVehicle: firstSeen is stamped anew with every update.
ShiftedVehicleSeenNow(existing, newMovement, t) ==
    [current |-> Stamped(newMovement, t),
     previous |-> [latitude |-> existing.current.latitude,
                   longitude |-> existing.current.longitude,
                   timestamp |-> existing.current.timestamp],
     firstSeen |-> t]

\* The vehicle stored for newMovement when the old cache holds `existing`.
ShiftedVehicle(existing, newMovement, t) ==
    [current |-> Stamped(newMovement, t),
     previous |-> [latitude |-> existing.current.latitude,
                   longitude |-> existing.current.longitude,
                   timestamp |-> existing.current.timestamp],
     firstSeen |-> existing.firstSeen]

\* Mutant of NewVehicle: a new vehicle starts with its own position as the
\* previous one.
NewVehicleWithPrevious(newMovement, t) ==
    [current |-> Stamped(newMovement, t),
     previous |-> [latitude |-> newMovement.latitude,
                   longitude |-> newMovement.longitude,
                   timestamp |-> t],
     firstSeen |-> t]

\* The vehicle stored for a newMovement the old cache does not hold.
NewVehicle(newMovement, t) ==
    [current |-> Stamped(newMovement, t),
     previous |-> Null,
     firstSeen |-> t]

\* The for-loop of update: updatedVehicles after movements[i..].
RECURSIVE UpdateLoop(_, _, _, _, _)
UpdateLoop(old, movements, i, updatedVehicles, t) ==
    IF i > Len(movements) THEN updatedVehicles
    ELSE LET newMovement == movements[i]
             vehicle == IF MapHas(old, newMovement.tripId)
                        THEN ShiftedVehicle(MapGet(old, newMovement.tripId), newMovement, t)
                        ELSE NewVehicle(newMovement, t)
         IN UpdateLoop(old, movements, i + 1,
                       MapSet(updatedVehicles, newMovement.tripId, vehicle), t)

\* Mutant of EmptyUpdate: the first revision of update, which replaced the
\* cache with whatever it was given.
EmptyUpdateWipes(c, t) ==
    [c EXCEPT !.movements = <<>>,
              !.lastUpdated = t,
              !.updateCount = @ + 1]

\* Mutant of EmptyUpdate: the empty batch counts as a refresh of the cache.
EmptyUpdateRefreshes(c, t) ==
    [c EXCEPT !.consecutiveEmptyUpdates = @ + 1,
              !.lastEmptyUpdate = t,
              !.lastUpdated = t]

\* The early return of update on an empty batch.
EmptyUpdate(c, t) ==
    [c EXCEPT !.consecutiveEmptyUpdates = @ + 1,
              !.lastEmptyUpdate = t]

\* Mutant of FullUpdate: the batch is merged into the old Map, so entities
\* the batch omits are carried forward.
FullUpdateMerges(c, movements, t) ==
    [c EXCEPT !.consecutiveEmptyUpdates = 0,
              !.movements = UpdateLoop(c.movements, movements, 1, c.movements, t),
              !.lastUpdated = t,
              !.updateCount = @ + 1]

\* Mutant of FullUpdate: the new Map is swapped in, lastUpdated and
\* updateCount are left for later.
FullUpdateTorn(c, movements, t) ==
    [c EXCEPT !.consecutiveEmptyUpdates = 0,
              !.movements = UpdateLoop(c.movements, movements, 1, <<>>, t)]

\* Mutant of FullUpdate: updateCount counts the movements applied.
FullUpdateCountsMovements(c, movements, t) ==
    [c EXCEPT !.consecutiveEmptyUpdates = 0,
              !.movements = UpdateLoop(c.movements, movements, 1, <<>>, t),
              !.lastUpdated = t,
              !.updateCount = @ + Len(movements)]

\* Mutant of FullUpdate: the counter of empty updates is left as it is.
FullUpdateKeepsCounter(c, movements, t) ==
    [c EXCEPT !.movements = UpdateLoop(c.movements, movements, 1, <<>>, t),
              !.lastUpdated = t,
              !.updateCount = @ + 1]

\* update on a non-empty batch: build the new Map aside, then swap it in.
FullUpdate(c, movements, t) ==
    [c EXCEPT !.consecutiveEmptyUpdates = 0,
              !.movements = UpdateLoop(c.movements, movements, 1, <<>>, t),
              !.lastUpdated = t,
              !.updateCount = @ + 1]

\* Mutant of update: the second revision of update, which had no guard for
\* the empty batch.
UpdateWithoutGuard(c, movements, t) == FullUpdate(c, movements, t)

\* cache.update(movements) at time t.
update(c, movements, t) ==
    IF Len(movements) = 0 THEN EmptyUpdate(c, t) ELSE FullUpdate(c, movements, t)

\* The history of dropped ids after the cache went from c to d.
Dropped(h, c, d) == h \cup (MapKeys(c.movements) \ MapKeys(d.movements))

\* One element of cache.getAll().
Flatten(vehicle) ==
    [name |-> vehicle.current.name,
     direction |-> vehicle.current.direction,
     tripId |-> vehicle.current.tripId,
     latitude |-> vehicle.current.latitude,
     longitude |-> vehicle.current.longitude,
     type |-> vehicle.current.type,
     previousPosition |-> IF vehicle.previous # Null
                          THEN [latitude |-> vehicle.previous.latitude,
                                longitude |-> vehicle.previous.longitude]
                          ELSE Null]

\* Mutant of getAll: only the vehicles that have a previous position are
\* listed.
getAllMoved(c) ==
    LET vs == SelectSeq(MapValues(c.movements), LAMBDA v : v.previous # Null)
    IN [i \in 1..Len(vs) |-> Flatten(vs[i])]

\* cache.getAll()
getAll(c) == LET vs == MapValues(c.movements) IN [i \in 1..Len(vs) |-> Flatten(vs[i])]

\* A JavaScript value that is a boolean, null or undefined.
JsBool(b) == IF b THEN "true" ELSE "false"
JsNull == "null"
JsUndefined == "undefined"

\* The test of `v ? a : b` and `if (v)` on such a value.
Truthy(v) == v = JsBool(TRUE)

\* Mutant of getStats: the age that equals the threshold still counts as
\* healthy.
getStatsLenient(c, t) ==
    [count |-> Len(c.movements),
     lastUpdated |-> c.lastUpdated,
     ageMs |-> IF c.lastUpdated # NoTime THEN t - c.lastUpdated ELSE NoTime,
     updateCount |-> c.updateCount,
     isHealthy |-> IF c.lastUpdated = NoTime
                   THEN JsNull
                   ELSE JsBool((t - c.lastUpdated) <= HEALTHY_MS)]

\* Mutant of getStats: the age is counted from the last update call, empty
\* ones included.
getStatsSinceLastCall(c, t) ==
    [count |-> Len(c.movements),
     lastUpdated |-> c.lastUpdated,
     ageMs |-> IF c.lastUpdated # NoTime
               THEN t - (IF c.lastEmptyUpdate > c.lastUpdated
                         THEN c.lastEmptyUpdate ELSE c.lastUpdated)
               ELSE NoTime,
     updateCount |-> c.updateCount,
     isHealthy |-> IF c.lastUpdated = NoTime
                   THEN JsNull
                   ELSE JsBool((t - c.lastUpdated) < HEALTHY_MS)]

\* cache.getStats() at time t. ageMs is NoTime for null; isHealthy is the
\* value of `cache.lastUpdated && (now - cache.lastUpdated) < 60000`, which
\* is null while lastUpdated is null.
getStats(c, t) ==
    [count |-> Len(c.movements),
     lastUpdated |-> c.lastUpdated,
     ageMs |-> IF c.lastUpdated # NoTime THEN t - c.lastUpdated ELSE NoTime,
     updateCount |-> c.updateCount,
     isHealthy |-> IF c.lastUpdated = NoTime
                   THEN JsNull
                   ELSE JsBool((t - c.lastUpdated) < HEALTHY_MS)]

\* ----------------------------------------------------- rateLimitTracker.js
\* Mutant of cleanupOldRequests: a request made exactly WINDOW_MS ago is kept.
cleanupKeepsBoundary(ts, t) == SelectSeq(ts, LAMBDA x : x >= t - WINDOW_MS)

\* cleanupOldRequests() at time t
cleanupOldRequests(ts, t) == SelectSeq(ts, LAMBDA x : x > t - WINDOW_MS)

\* Mutant of recordRequest: the timestamp is pushed twice.
recordRequestTwice(ts, t) == cleanupOldRequests(Append(Append(ts, t), t), t)

\* The window after recordRequest() at time t.
recordRequest(ts, t) == cleanupOldRequests(Append(ts, t), t)

\* Math.round(x / y) for non-negative x and positive y
Round(x, y) == (2 * x + y) \div (2 * y)

\* Mutant of RateStats: the warning starts above 50 percent.
RateStatsStrict(ts) ==
    LET count == Len(ts)
        percentage == Round(count * 100, RATE_LIMIT)
    IN [count |-> count,
        limit |-> RATE_LIMIT,
        remaining |-> RATE_LIMIT - count,
        percentage |-> percentage,
        isWarning |-> percentage > 50,
        isCritical |-> percentage >= 80]

\* The object getStats() returns for a window already cleaned up.
RateStats(ts) ==
    LET count == Len(ts)
        percentage == Round(count * 100, RATE_LIMIT)
    IN [count |-> count,
        limit |-> RATE_LIMIT,
        remaining |-> RATE_LIMIT - count,
        percentage |-> percentage,
        isWarning |-> percentage >= 50,
        isCritical |-> percentage >= 80]

\* ------------------------------------------------------------ vbbPoller.js
Tiles == 1..NumTiles

\* config.BOUNDING_BOXES: the ids of the tiles of the server's configuration,
\* in configuration order.
BOUNDING_BOXES ==
    <<"1", "2", "3",
      "5", "6-1", "6-2", "6-3", "6-4", "7", "8",
      "9", "10-1", "10-2", "10-3", "10-4", "11", "12",
      "13", "14", "15", "16">>

PollStatsInit ==
    [totalPolls |-> 0,
     successfulPolls |-> 0,
     emptyPolls |-> 0,
     failedPolls |-> 0,
     lastPollTime |-> NoTime,
     lastNonEmptyPollTime |-> NoTime,
     consecutiveEmptyPolls |-> 0]

\* What the upstream may answer to one tile request, its movements among raws.
UpstreamReplies(raws) ==
    {[kind |-> k, movements |-> <<>>] : k \in {"networkError", "httpError", "malformed"}}
    \cup {[kind |-> "ok", movements |-> ms] : ms \in SeqsUpTo(raws, MaxLen)}

\* The array fetchBox resolves to for an upstream reply: it never rejects.
fetchBox(reply) ==
    IF reply.kind = "ok"
    THEN [i \in 1..Len(reply.movements) |-> Normalize(reply.movements[i])]
    ELSE <<>>

\* lastOp of a step that takes no input and gives no output
NoOp == [op |-> "none"]

\* The states of a tile's fetchBox promise. What a settled promise holds is
\* read by nobody before the aggregate, so it is drawn there.
Idle == "idle"
Pending == "pending"
Settled == "settled"

\* results.flat(): the tile results concatenated in tile configuration order
RECURSIVE Flat(_, _)
Flat(results, i) ==
    IF i > NumTiles THEN <<>> ELSE results[i] \o Flat(results, i + 1)

\* The dedup loop of fetchAllBoxes: the Map `seen` after allMovements[i..].
RECURSIVE DedupLoop(_, _, _)
DedupLoop(allMovements, i, seen) ==
    IF i > Len(allMovements) THEN seen
    ELSE LET movement == allMovements[i]
         IN DedupLoop(allMovements, i + 1,
                      IF ~MapHas(seen, movement.tripId)
                      THEN MapSet(seen, movement.tripId, movement)
                      ELSE seen)

\* Mutant of fetchAllBoxes: the flattened results are returned as they are.
fetchAllBoxesNoDedup(results) == Flat(results, 1)

\* What fetchAllBoxes resolves to, given the array each tile resolved to.
fetchAllBoxes(results) == MapValues(DedupLoop(Flat(results, 1), 1, <<>>))

\* Every aggregate a cycle of the running server can end with: one upstream
\* reply per tile, each through fetchBox, all through fetchAllBoxes.
Aggregates ==
    {fetchAllBoxes([b \in Tiles |-> fetchBox(replies[b])]) :
        replies \in [Tiles -> UpstreamReplies(RadarMovements)]}

\* Mutant of CountPoll: the run of empty polls is not ended by a poll with
\* data.
CountPollKeepsRun(ps, n, t) ==
    IF n = 0
    THEN [ps EXCEPT !.emptyPolls = @ + 1,
                    !.consecutiveEmptyPolls = @ + 1]
    ELSE [ps EXCEPT !.successfulPolls = @ + 1,
                    !.lastNonEmptyPollTime = t]

\* The statistics of poll() after an aggregate of n movements.
CountPoll(ps, n, t) ==
    IF n = 0
    THEN [ps EXCEPT !.emptyPolls = @ + 1,
                    !.consecutiveEmptyPolls = @ + 1]
    ELSE [ps EXCEPT !.successfulPolls = @ + 1,
                    !.consecutiveEmptyPolls = 0,
                    !.lastNonEmptyPollTime = t]

\* The tiles this poller was configured with: one fetchBox promise each.
Boxes == DOMAIN fetches

\* Mutant of RecordAll: the request is recorded once for the whole cycle.
RecordOnce(ts, n, t) == recordRequest(ts, t)

\* N recordRequest() calls, one per tile, all in the same synchronous stretch.
RECURSIVE RecordAll(_, _, _)
RecordAll(ts, n, t) ==
    IF n = 0 THEN ts ELSE RecordAll(recordRequest(ts, t), n - 1, t)

\* Mutant of poll: the first lines of poll (the isPolling test) are missing.
pollUnguarded ==
    /\ isPolling' = TRUE
    /\ pollStats' = [pollStats EXCEPT !.totalPolls = @ + 1,
                                      !.lastPollTime = now]
    /\ requestTimestamps' = RecordAll(requestTimestamps, Cardinality(Boxes), now)
    /\ recorded' = recorded \o [b \in Boxes |-> now]
    /\ fetches' = [b \in Boxes |-> Pending]

\* Mutant of poll: totalPolls is counted before the isPolling test, so a
\* skipped trigger is counted too.
pollCountsSkipped ==
    IF isPolling
    THEN /\ pollStats' = [pollStats EXCEPT !.totalPolls = @ + 1]
         /\ UNCHANGED <<isPolling, requestTimestamps, recorded, fetches>>
    ELSE /\ isPolling' = TRUE
         /\ pollStats' = [pollStats EXCEPT !.totalPolls = @ + 1,
                                           !.lastPollTime = now]
         /\ requestTimestamps' = RecordAll(requestTimestamps, Cardinality(Boxes), now)
         /\ recorded' = recorded \o [b \in Boxes |-> now]
         /\ fetches' = [b \in Boxes |-> Pending]

\* poll() up to its await: skipped when a cycle is in flight; otherwise the
\* cycle starts and every fetchBox runs up to its own await fetch(url),
\* which records the request first.
poll ==
    IF isPolling
    THEN UNCHANGED <<isPolling, pollStats, requestTimestamps, recorded, fetches>>
    ELSE /\ isPolling' = TRUE
         /\ pollStats' = [pollStats EXCEPT !.totalPolls = @ + 1,
                                           !.lastPollTime = now]
         /\ requestTimestamps' = RecordAll(requestTimestamps, Cardinality(Boxes), now)
         /\ recorded' = recorded \o [b \in Boxes |-> now]
         /\ fetches' = [b \in Boxes |-> Pending]

\* Mutant of Start: start() only arms the timer, the first cycle waits for
\* the first tick.
StartDeferred ==
    /\ handles < MaxStarts
    /\ isPolling \/ pollStats.totalPolls < MaxPolls
    /\ handles' = handles + 1
    /\ pollInterval' = handles + 1
    /\ timers' = [h \in DOMAIN timers \cup {handles + 1} |->
                    IF h = handles + 1 THEN now + POLL_INTERVAL_MS ELSE timers[h]]
    /\ lastOp' = NoOp
    /\ UNCHANGED <<clientVars, now, cache, dropped, recorded, requestTimestamps, pollStats,
                   isPolling, fetches>>

\* start(): one poll at once, then a repeating timer whose handle replaces
\* whatever pollInterval held.
start ==
    /\ isPolling \/ pollStats.totalPolls < MaxPolls
    /\ poll
    /\ handles' = handles + 1
    /\ pollInterval' = handles + 1
    /\ timers' = [h \in DOMAIN timers \cup {handles + 1} |->
                    IF h = handles + 1 THEN now + POLL_INTERVAL_MS ELSE timers[h]]
    /\ lastOp' = NoOp
    /\ UNCHANGED <<clientVars, now, cache, dropped>>

\* poller.start() as the server calls it when it comes up.
Start ==
    /\ handles < MaxStarts
    /\ start

\* start() called by a user of the poller module, any number of times.
StartByCaller ==
    /\ handles < MaxRestarts
    /\ start

\* Mutant of Stop: stop() empties the cache as well.
StopClearsCache ==
    /\ pollInterval # NoTime
    /\ timers' = [h \in DOMAIN timers \ {pollInterval} |-> timers[h]]
    /\ pollInterval' = NoTime
    /\ cache' = CacheInit
    /\ lastOp' = NoOp
    /\ UNCHANGED <<clientVars, now, dropped, recorded, requestTimestamps, pollStats, isPolling,
                   handles, fetches>>

\* stop(): clears the timer pollInterval holds.
Stop ==
    /\ pollInterval # NoTime
    /\ timers' = [h \in DOMAIN timers \ {pollInterval} |-> timers[h]]
    /\ pollInterval' = NoTime
    /\ lastOp' = NoOp
    /\ UNCHANGED <<clientVars, now, cache, dropped, recorded, requestTimestamps, pollStats, isPolling,
                   handles, fetches>>

\* Every tile still in flight settles. The order in which the tiles of one
\* cycle settle is visible to nobody, so they settle in one step here.
BoxesSettle ==
    /\ \E b \in Boxes : fetches[b] = Pending
    /\ fetches' = [b \in Boxes |-> Settled]
    /\ lastOp' = NoOp
    /\ UNCHANGED <<clientVars, now, cache, dropped, recorded, requestTimestamps, pollStats, isPolling,
                   pollInterval, timers, handles>>

\* A setInterval timer is due: its callback poll runs. No more than cap
\* cycles are followed.
Fire(cap) ==
    \E h \in DOMAIN timers :
        /\ timers[h] = now
        /\ isPolling \/ pollStats.totalPolls < cap
        /\ poll
        /\ timers' = [timers EXCEPT ![h] = @ + POLL_INTERVAL_MS]
        /\ lastOp' = NoOp
        /\ UNCHANGED <<clientVars, now, cache, dropped, pollInterval, handles>>

\* A timer tick in the running server.
TimerFire == Fire(MaxPolls)

\* A timer tick in the server followed through an outage and a whole rate
\* window.
TimerFireFar == Fire(MaxCycles)

\* One tile's fetchBox settles with what the upstream answered.
TileSettle ==
    \E b \in Boxes :
        /\ fetches[b] = Pending
        /\ fetches' = [fetches EXCEPT ![b] = Settled]
        /\ lastOp' = NoOp
        /\ UNCHANGED <<clientVars, now, cache, dropped, recorded, requestTimestamps, pollStats, isPolling,
                       pollInterval, timers, handles>>

\* Mutant of PollFinish: the cycle ends without finally, and the flag stays
\* set.
PollFinishKeepsFlag ==
    /\ isPolling
    /\ \A b \in Boxes : fetches[b] = Settled
    /\ \E movements \in Aggregates :
        /\ pollStats' = CountPoll(pollStats, Len(movements), now)
        /\ cache' = update(cache, movements, now)
        /\ lastOp' = [op |-> "update", batch |-> movements]
        /\ dropped' = Dropped(dropped, cache, cache')
    /\ fetches' = [b \in Boxes |-> Idle]
    /\ UNCHANGED <<clientVars, now, recorded, requestTimestamps, isPolling, pollInterval, timers, handles>>

\* Every tile has settled: the await of poll() resumes with the aggregate,
\* counts the cycle, updates the cache and leaves through finally.
Finish(aggregates) ==
    /\ isPolling
    /\ \A b \in Boxes : fetches[b] = Settled
    /\ \E movements \in aggregates :
        /\ pollStats' = CountPoll(pollStats, Len(movements), now)
        /\ cache' = update(cache, movements, now)
        /\ lastOp' = [op |-> "update", batch |-> movements]
        /\ dropped' = Dropped(dropped, cache, cache')
    /\ isPolling' = FALSE
    /\ fetches' = [b \in Boxes |-> Idle]
    /\ UNCHANGED <<clientVars, now, recorded, requestTimestamps, pollInterval, timers, handles>>

\* A cycle of the running server ends with any aggregate the upstream's
\* replies can make.
PollFinish == Finish(Aggregates)

\* A cycle ends while the upstream has no vehicle to report.
PollFinishEmpty == Finish({<<>>})

\* Mutant of PollFail: the flag is cleared at the end of try only, and there
\* is no finally.
PollFailNoFinally ==
    /\ isPolling
    /\ \A b \in Boxes : fetches[b] = Settled
    /\ pollStats' = [pollStats EXCEPT !.failedPolls = @ + 1]
    /\ fetches' = [b \in Boxes |-> Idle]
    /\ lastOp' = NoOp
    /\ UNCHANGED <<clientVars, now, cache, dropped, recorded, requestTimestamps, isPolling, pollInterval,
                   timers, handles>>

\* Mutant of PollFail: catch hands the cache an empty batch.
PollFailCountsEmpty ==
    /\ isPolling
    /\ \A b \in Boxes : fetches[b] = Settled
    /\ pollStats' = [pollStats EXCEPT !.failedPolls = @ + 1]
    /\ cache' = update(cache, <<>>, now)
    /\ isPolling' = FALSE
    /\ fetches' = [b \in Boxes |-> Idle]
    /\ lastOp' = NoOp
    /\ UNCHANGED <<clientVars, now, dropped, recorded, requestTimestamps, pollInterval, timers, handles>>

\* Mutant of PollFail: catch logs the error and counts nothing.
PollFailUncounted ==
    /\ isPolling
    /\ \A b \in Boxes : fetches[b] = Settled
    /\ isPolling' = FALSE
    /\ fetches' = [b \in Boxes |-> Idle]
    /\ lastOp' = NoOp
    /\ UNCHANGED <<clientVars, now, cache, dropped, recorded, requestTimestamps, pollStats,
                   pollInterval, timers, handles>>

\* The await of poll() throws instead: catch counts the failure, finally
\* clears the flag. fetchBox never rejects, so Promise.all never rejects
\* early, and what can throw in fetchAllBoxes comes after every tile has
\* settled.
PollFail ==
    /\ isPolling
    /\ \A b \in Boxes : fetches[b] = Settled
    /\ pollStats' = [pollStats EXCEPT !.failedPolls = @ + 1]
    /\ isPolling' = FALSE
    /\ fetches' = [b \in Boxes |-> Idle]
    /\ lastOp' = NoOp
    /\ UNCHANGED <<clientVars, now, cache, dropped, recorded, requestTimestamps, pollInterval, timers, handles>>

\* Time passes up to a horizon, but never beyond a timer that is due.
Tick(horizon) ==
    /\ now < horizon
    /\ \A h \in DOMAIN timers : timers[h] > now
    /\ now' = now + ClockStep
    /\ lastOp' = NoOp
    /\ UNCHANGED <<clientVars, cache, dropped, recorded, requestTimestamps, pollerVars>>

\* Time passes in the running server.
Clock == Tick(Horizon)

\* Time passes for the cache and the rate tracker on their own.
ClockFar == Tick(FarHorizon)

\* ---------------------------------------------------------------- index.js
\* Mutant of GetMovements: meta.count is taken from the wrong statistic.
GetMovementsCountsUpdates ==
    /\ lastOp' = [op |-> "GET /api/movements",
                  status |-> 200,
                  body |-> LET movements == getAll(cache)
                               stats == getStats(cache, now)
                           IN [movements |-> movements,
                               meta |-> [count |-> stats.updateCount,
                                         lastUpdated |-> stats.lastUpdated,
                                         ageMs |-> stats.ageMs,
                                         isHealthy |-> stats.isHealthy]]]
    /\ UNCHANGED <<clientVars, now, cache, dropped, recorded, requestTimestamps, pollerVars>>

\* GET /api/movements
GetMovements ==
    /\ lastOp' = [op |-> "GET /api/movements",
                  status |-> 200,
                  body |-> LET movements == getAll(cache)
                               stats == getStats(cache, now)
                           IN [movements |-> movements,
                               meta |-> [count |-> stats.count,
                                         lastUpdated |-> stats.lastUpdated,
                                         ageMs |-> stats.ageMs,
                                         isHealthy |-> stats.isHealthy]]]
    /\ UNCHANGED <<clientVars, now, cache, dropped, recorded, requestTimestamps, pollerVars>>

\* GET /api/stats
GetStats ==
    /\ lastOp' = [op |-> "GET /api/stats", status |-> 200, body |-> getStats(cache, now)]
    /\ UNCHANGED <<clientVars, now, cache, dropped, recorded, requestTimestamps, pollerVars>>

\* Mutant of GetRateLimit: the handler answers with recordRequest(), which
\* counts the request itself.
GetRateLimitCounted ==
    /\ requestTimestamps' = recordRequest(requestTimestamps, now)
    /\ recorded' = Append(recorded, now)
    /\ lastOp' = [op |-> "GET /api/rate-limit",
                  status |-> 200,
                  body |-> RateStats(requestTimestamps')]
    /\ UNCHANGED <<clientVars, now, cache, dropped, pollerVars>>

\* GET /api/rate-limit: getStats() of the rate tracker cleans the window up
\* before it counts.
GetRateLimit ==
    /\ requestTimestamps' = cleanupOldRequests(requestTimestamps, now)
    /\ lastOp' = [op |-> "GET /api/rate-limit",
                  status |-> 200,
                  body |-> RateStats(requestTimestamps')]
    /\ UNCHANGED <<clientVars, now, cache, dropped, recorded, pollerVars>>

\* The property read obj.name: undefined when obj has no such property.
Prop(obj, name) == IF name \in DOMAIN obj THEN obj[name] ELSE JsUndefined

\* Mutant of HealthStatus: a cache that was never updated counts as healthy.
HealthStatusNullIsHealthy(stats) ==
    IF stats.isHealthy # JsBool(FALSE) THEN "healthy" ELSE "degraded"

\* status of the /health body: stats.isHealthy ? 'healthy' : 'degraded'
HealthStatus(stats) ==
    IF Truthy(Prop(stats, "isHealthy")) THEN "healthy" ELSE "degraded"

\* statusCode of /health: stats.isHealthy ? 200 : 503
HealthStatusCode(stats) ==
    IF Truthy(Prop(stats, "isHealthy")) THEN 200 ELSE 503

\* GET /health. The process is up since time 0.
GetHealth ==
    /\ lastOp' = [op |-> "GET /health",
                  status |-> HealthStatusCode(getStats(cache, now)),
                  body |-> LET stats == getStats(cache, now)
                           IN [status |-> HealthStatus(stats),
                               timestamp |-> now,
                               uptime |-> now \div 1000,
                               cache |-> [count |-> Prop(stats, "count"),
                                          agemMs |-> Prop(stats, "ageMs"),
                                          isHealthy |-> Prop(stats, "isHeathy")]]]
    /\ UNCHANGED <<clientVars, now, cache, dropped, recorded, requestTimestamps, pollerVars>>

\* recordRequest() called from outside the poller: the timestamp is pushed,
\* the window cleaned up and getStats() returned.
RecordRequest ==
    /\ Len(recorded) < MaxRequests
    /\ requestTimestamps' = recordRequest(requestTimestamps, now)
    /\ recorded' = Append(recorded, now)
    /\ lastOp' = [op |-> "recordRequest",
                  body |-> RateStats(cleanupOldRequests(requestTimestamps', now))]
    /\ UNCHANGED <<clientVars, now, cache, dropped, pollerVars>>

\* reset()
Reset ==
    /\ requestTimestamps' = <<>>
    /\ recorded' = <<>>
    /\ lastOp' = NoOp
    /\ UNCHANGED <<clientVars, now, cache, dropped, pollerVars>>

\* -------------------------------------------------------------- behaviours
\* The map client has no marker and the tracker has seen no trip.
ClientInit ==
    /\ markers = <<>>
    /\ mapStats = [updateCycleCount |-> 0,
                   lastNonEmptyUpdate |-> NoTime,
                   consecutiveEmptyUpdates |-> 0]
    /\ responses = <<>>
    /\ allTrips = <<>>
    /\ pollCount = 0
    /\ trackerPending = 0
    /\ trackerExited = FALSE

Init ==
    /\ now = 0
    /\ cache = CacheInit
    /\ requestTimestamps = <<>>
    /\ pollStats = PollStatsInit
    /\ isPolling = FALSE
    /\ pollInterval = NoTime
    /\ timers = <<>>
    /\ handles = 0
    /\ fetches = [b \in Tiles |-> Idle]
    /\ lastOp = NoOp
    /\ dropped = {}
    /\ recorded = <<>>
    /\ ClientInit

\* The running server.
Next ==
    \/ Start
    \/ Stop
    \/ TimerFire
    \/ TileSettle
    \/ PollFinish
    \/ PollFail
    \/ Clock
    \/ GetMovements
    \/ GetStats
    \/ GetRateLimit
    \/ GetHealth

Spec == Init /\ [][Next]_vars

\* A caller of the cache module alone (the test script of the repository
\* calls cache.update directly).
Batches == SeqsUpTo(Movements, MaxLen)

DirectUpdate ==
    \E batch \in Batches :
        /\ cache.updateCount + cache.consecutiveEmptyUpdates < MaxUpdates
        /\ cache' = update(cache, batch, now)
        /\ lastOp' = [op |-> "update", batch |-> batch]
        /\ dropped' = Dropped(dropped, cache, cache')
        /\ UNCHANGED <<clientVars, now, recorded, requestTimestamps, pollerVars>>

NextCache ==
    \/ DirectUpdate
    \/ ClockFar

SpecCache == Init /\ [][NextCache]_vars

\* The batches of a feed that reports every trip at one place.
RadarBatches == SeqsUpTo({Normalize(raw) : raw \in RadarMovements}, MaxLen)

\* cache.update called with a batch of that feed.
FeedUpdate ==
    \E batch \in RadarBatches :
        /\ cache.updateCount + cache.consecutiveEmptyUpdates < MaxUpdates
        /\ cache' = update(cache, batch, now)
        /\ lastOp' = [op |-> "update", batch |-> batch]
        /\ dropped' = Dropped(dropped, cache, cache')
        /\ UNCHANGED <<clientVars, now, recorded, requestTimestamps, pollerVars>>

NextFeed ==
    \/ FeedUpdate
    \/ ClockFar

\* A caller of the cache while time advances: the wall clock does not stop.
FairSpecFeed == Init /\ [][NextFeed]_vars /\ WF_vars(ClockFar)

\* The request handlers over a cache that is updated with any batch at any
\* time: every update the poller can make is among these.
NextServe ==
    \/ DirectUpdate
    \/ ClockFar
    \/ GetHealth

SpecServe == Init /\ [][NextServe]_vars

\* A user of the poller module alone: start() and stop() in any order, the
\* timers, the cycles and the clock, with no request served.
NextPoller ==
    \/ StartByCaller
    \/ Stop
    \/ TimerFire
    \/ TileSettle
    \/ PollFinish
    \/ PollFail
    \/ Clock

SpecPoller == Init /\ [][NextPoller]_vars

\* The scheduler of the running server, when every tile request is answered
\* in the end and the event loop runs the continuation of a resolved await.
NextCycle ==
    \/ Start
    \/ TimerFire
    \/ TileSettle
    \/ PollFinish
    \/ PollFail
    \/ Clock

FairSpecCycle ==
    Init /\ [][NextCycle]_vars /\ WF_vars(TileSettle) /\ WF_vars(PollFinish)

\* The scheduler and the cache through an upstream outage: cycles end empty,
\* thrown or with data while the cache ages.
NextOutage ==
    \/ Start
    \/ TimerFireFar
    \/ BoxesSettle
    \/ PollFinish
    \/ PollFail
    \/ ClockFar

SpecOutage == Init /\ [][NextOutage]_vars

\* The running server with the tiles of config.js: its upstream requests and
\* the rate window they fill.
InitLoad ==
    /\ now = 0
    /\ cache = CacheInit
    /\ requestTimestamps = <<>>
    /\ pollStats = PollStatsInit
    /\ isPolling = FALSE
    /\ pollInterval = NoTime
    /\ timers = <<>>
    /\ handles = 0
    /\ fetches = [b \in 1..Len(BOUNDING_BOXES) |-> Idle]
    /\ lastOp = NoOp
    /\ dropped = {}
    /\ recorded = <<>>
    /\ ClientInit

NextLoad ==
    \/ Start
    \/ TimerFire
    \/ BoxesSettle
    \/ PollFinish
    \/ PollFail
    \/ ClockFar
    \/ GetRateLimit

SpecLoad == InitLoad /\ [][NextLoad]_vars

\* The server with the tiles of config.js followed for a whole rate window,
\* its clients asking for the movements and the rate statistics. What the
\* upstream answers has no part in the rate window, so it answers nothing.
NextWindow ==
    \/ Start
    \/ TimerFireFar
    \/ BoxesSettle
    \/ PollFinishEmpty
    \/ PollFail
    \/ ClockFar
    \/ GetRateLimit
    \/ GetMovements

SpecWindow == InitLoad /\ [][NextWindow]_vars

\* A caller of the rate tracker alone, and the rate-limit request handler.
NextRate ==
    \/ RecordRequest
    \/ Reset
    \/ GetRateLimit
    \/ ClockFar

SpecRate == Init /\ [][NextRate]_vars

\* getStats() of the rate tracker on a window of any length: the requests
\* of one burst at time 0.
InitRateStats ==
    /\ now = 0
    /\ cache = CacheInit
    /\ requestTimestamps \in {[i \in 1..n |-> 0] : n \in 0..MaxCount}
    /\ pollStats = PollStatsInit
    /\ isPolling = FALSE
    /\ pollInterval = NoTime
    /\ timers = <<>>
    /\ handles = 0
    /\ fetches = [b \in Tiles |-> Idle]
    /\ lastOp = NoOp
    /\ dropped = {}
    /\ recorded = requestTimestamps
    /\ ClientInit

NextRateStats == GetRateLimit

SpecRateStats == InitRateStats /\ [][NextRateStats]_vars

\* One cycle of the poller, tile by tile: the upstream replies of the cycle
\* are drawn at its start, the fetchBox promises settle in any order,
\* Promise.all collects them, fetchAllBoxes aggregates and poll applies.
Fulfilled(value) == [status |-> "fulfilled", value |-> value]
Rejected == [status |-> "rejected"]

\* Mutant of fetchBoxPromise: fetchBox without its try/catch, so a failed
\* fetch(url) and a failed response.json() reject the promise.
fetchBoxPromiseNoCatch(reply) ==
    IF reply.kind \in {"networkError", "malformed"}
    THEN Rejected
    ELSE Fulfilled(fetchBox(reply))

\* The promise fetchBox returns, settled: the whole body of fetchBox is in
\* try/catch and catch returns [], so it is always fulfilled.
fetchBoxPromise(reply) == Fulfilled(fetchBox(reply))

\* Mutant of StoreAt: the values are collected in the order they arrive.
StoreAtArrival(values, b, v) ==
    [i \in DOMAIN values \cup {Cardinality(DOMAIN values) + 1} |->
        IF i = Cardinality(DOMAIN values) + 1 THEN v ELSE values[i]]

\* Promise.all keeps the value of the b-th promise at index b.
StoreAt(values, b, v) ==
    [i \in DOMAIN values \cup {b} |-> IF i = b THEN v ELSE values[i]]

\* The state poll() leaves at its await, for every choice of upstream replies.
InitAggregate ==
    /\ now = 0
    /\ cache = CacheInit
    /\ requestTimestamps = RecordAll(<<>>, NumTiles, 0)
    /\ pollStats = [PollStatsInit EXCEPT !.totalPolls = 1, !.lastPollTime = 0]
    /\ isPolling = TRUE
    /\ pollInterval = NoTime
    /\ timers = <<>>
    /\ handles = 0
    /\ fetches = [b \in Tiles |-> Pending]
    /\ lastOp \in {[op |-> "fetching", replies |-> replies, order |-> <<>>, values |-> <<>>] :
                      replies \in [Tiles -> UpstreamReplies(RawMovements)]}
    /\ dropped = {}
    /\ recorded = [b \in Tiles |-> 0]
    /\ ClientInit

\* The fetchBox promise of tile b settles, in whatever order the responses
\* arrive; a rejected one rejects Promise.all, fetchAllBoxes and the await
\* of poll(), whose catch and finally run.
TileArrive ==
    \E b \in Tiles :
        /\ lastOp.op = "fetching"
        /\ fetches[b] = Pending
        /\ LET promise == fetchBoxPromise(lastOp.replies[b])
           IN IF promise.status = "fulfilled"
              THEN /\ lastOp' = [lastOp EXCEPT !.order = Append(@, b),
                                               !.values = StoreAt(@, b, promise.value)]
                   /\ fetches' = [fetches EXCEPT ![b] = Settled]
                   /\ UNCHANGED <<pollStats, isPolling>>
              ELSE /\ lastOp' = [lastOp EXCEPT !.op = "thrown", !.order = Append(@, b)]
                   /\ fetches' = [t \in Tiles |-> Idle]
                   /\ pollStats' = [pollStats EXCEPT !.failedPolls = @ + 1]
                   /\ isPolling' = FALSE
        /\ UNCHANGED <<clientVars, now, cache, dropped, recorded, requestTimestamps, pollInterval, timers, handles>>

\* Mutant of Aggregate: fetchAllBoxes resolves as soon as one tile has
\* settled, with nothing for the tiles still in flight.
AggregateEarly ==
    /\ lastOp.op = "fetching"
    /\ \E b \in Tiles : fetches[b] = Settled
    /\ lastOp' = [op |-> "aggregated",
                  replies |-> lastOp.replies,
                  order |-> lastOp.order,
                  results |-> lastOp.values,
                  batch |-> fetchAllBoxes([b \in Tiles |->
                                IF b \in DOMAIN lastOp.values
                                THEN lastOp.values[b] ELSE <<>>])]
    /\ UNCHANGED <<clientVars, now, cache, dropped, recorded, requestTimestamps, pollerVars>>

\* Every promise is fulfilled: Promise.all resolves with the collected
\* values and fetchAllBoxes flattens and deduplicates them.
Aggregate ==
    /\ lastOp.op = "fetching"
    /\ \A b \in Tiles : fetches[b] = Settled
    /\ lastOp' = [op |-> "aggregated",
                  replies |-> lastOp.replies,
                  order |-> lastOp.order,
                  results |-> lastOp.values,
                  batch |-> fetchAllBoxes(lastOp.values)]
    /\ UNCHANGED <<clientVars, now, cache, dropped, recorded, requestTimestamps, pollerVars>>

\* The await of poll() resumes with the aggregate: the cycle is counted, the
\* cache updated, and finally clears the flag.
ApplyAggregate ==
    /\ lastOp.op = "aggregated"
    /\ pollStats' = CountPoll(pollStats, Len(lastOp.batch), now)
    /\ cache' = update(cache, lastOp.batch, now)
    /\ lastOp' = [lastOp EXCEPT !.op = "applied"]
    /\ dropped' = Dropped(dropped, cache, cache')
    /\ isPolling' = FALSE
    /\ fetches' = [b \in Tiles |-> Idle]
    /\ UNCHANGED <<clientVars, now, recorded, requestTimestamps, pollInterval, timers, handles>>

NextAggregate ==
    \/ TileArrive
    \/ Aggregate
    \/ ApplyAggregate

SpecAggregate == InitAggregate /\ [][NextAggregate]_vars

\* ------------------------------------------------------------------ claims
\* The step just taken was a cache.update call.
IsUpdate(op) == op.op = "update"

\* The trip ids a batch names.
BatchIds(batch) == {batch[i].tripId : i \in 1..Len(batch)}

\* C1: cache.update with an empty batch leaves the entity map, lastUpdated
\* and updateCount as they were and adds exactly 1 to the consecutive-empty
\* counter.
C1_EmptyUpdatePreserves ==
    [][(IsUpdate(lastOp') /\ lastOp'.batch = <<>>) =>
          /\ cache'.movements = cache.movements
          /\ cache'.lastUpdated = cache.lastUpdated
          /\ cache'.updateCount = cache.updateCount
          /\ cache'.consecutiveEmptyUpdates = cache.consecutiveEmptyUpdates + 1]_vars

\* An empty update has arrived at a cache that holds entities of an earlier time.
C1_Witness ==
    /\ IsUpdate(lastOp)
    /\ lastOp.batch = <<>>
    /\ Len(cache.movements) > 0
    /\ cache.lastUpdated < now
    /\ cache.consecutiveEmptyUpdates = 2

\* The aggregates of the cycles in which every tile fails or reports nothing.
QuietAggregates ==
    {fetchAllBoxes([b \in Tiles |-> fetchBox(replies[b])]) :
        replies \in [Tiles -> {r \in UpstreamReplies(RadarMovements) : r.movements = <<>>}]}

\* C2: a cycle in which every tile fails or reports no movement ends with an
\* empty aggregate, and the step that applies an empty aggregate changes no
\* cached entity and not lastUpdated; an id leaves the cache only in a step
\* that applies a non-empty batch without that id.
C2_QuietCycleKeepsCache ==
    [][/\ QuietAggregates = {<<>>}
       /\ (IsUpdate(lastOp') /\ lastOp'.batch = <<>>) =>
             /\ cache'.movements = cache.movements
             /\ cache'.lastUpdated = cache.lastUpdated
       /\ (cache'.movements # cache.movements \/ cache'.lastUpdated # cache.lastUpdated) =>
             /\ IsUpdate(lastOp')
             /\ lastOp'.batch # <<>>
       /\ \A id \in MapKeys(cache.movements) \ MapKeys(cache'.movements) :
             /\ IsUpdate(lastOp')
             /\ lastOp'.batch # <<>>
             /\ id \notin BatchIds(lastOp'.batch)]_vars

\* A second cycle has ended with an empty aggregate, later than the cycle
\* that filled the cache, and the entities are still there.
C2_Witness ==
    /\ IsUpdate(lastOp)
    /\ lastOp.batch = <<>>
    /\ ~isPolling
    /\ pollStats.emptyPolls = 1
    /\ pollStats.successfulPolls = 1
    /\ Len(cache.movements) = 2
    /\ cache.lastUpdated < now

\* The step applies a non-empty batch to the cache.
AppliesBatch == IsUpdate(lastOp') /\ lastOp'.batch # <<>>

\* The last entry a batch holds for a trip id.
LastOf(batch, id) ==
    batch[CHOOSE i \in 1..Len(batch) :
            /\ batch[i].tripId = id
            /\ \A j \in (i + 1)..Len(batch) : batch[j].tripId # id]

SamePlace(p, q) == p.latitude = q.latitude /\ p.longitude = q.longitude

\* C3: a step that applies a non-empty batch leaves every entity that was
\* cached before with previous = the current position it had just before the
\* step and current = the position the batch gives it, and a previous
\* position is present only for such an entity; every other step leaves the
\* entities as they are, so a previous position is never older than the
\* most recent applied update.
C3_PreviousIsLastCurrent ==
    [][IF AppliesBatch
       THEN \A id \in MapKeys(cache'.movements) :
               LET vehicle == MapGet(cache'.movements, id)
               IN /\ SamePlace(vehicle.current, LastOf(lastOp'.batch, id))
                  /\ vehicle.previous # Null <=> MapHas(cache.movements, id)
                  /\ vehicle.previous # Null =>
                        SamePlace(vehicle.previous, MapGet(cache.movements, id).current)
       ELSE cache'.movements = cache.movements]_vars

\* An entity has been in three updates in a row and has moved in the last.
C3_Witness ==
    /\ IsUpdate(lastOp)
    /\ \E i \in 1..Len(cache.movements) :
          LET vehicle == cache.movements[i].value
          IN /\ vehicle.previous # Null
             /\ ~SamePlace(vehicle.previous, vehicle.current)
             /\ vehicle.firstSeen < vehicle.previous.timestamp
             /\ vehicle.previous.timestamp < vehicle.current.timestamp

\* C4: right after cache.update with a non-empty batch the cached ids are
\* exactly the trip ids of the batch, each once; nothing older is carried.
C4_FullSwap ==
    (IsUpdate(lastOp) /\ lastOp.batch # <<>>) =>
        /\ MapKeys(cache.movements) = BatchIds(lastOp.batch)
        /\ Len(cache.movements) = Cardinality(BatchIds(lastOp.batch))

\* A later update has dropped what was cached: all it left is new, and the
\* dropped id is on record.
C4_Witness ==
    /\ IsUpdate(lastOp)
    /\ lastOp.batch # <<>>
    /\ cache.updateCount = 2
    /\ dropped # {}
    /\ dropped \cap MapKeys(cache.movements) = {}
    /\ Len(cache.movements) = 1

\* The entry getAll reports for a trip id.
Reported(c, id) ==
    LET all == getAll(c) IN all[CHOOSE i \in 1..Len(all) : all[i].tripId = id]

\* C5: an id that was not cached just before a step that applies a non-empty
\* batch is stored with previous = null, and getAll reports
\* previousPosition = null for it.
C5_NewEntityHasNoPrevious ==
    [][AppliesBatch =>
          \A id \in MapKeys(cache'.movements) \ MapKeys(cache.movements) :
              /\ MapGet(cache'.movements, id).previous = Null
              /\ Reported(cache', id).previousPosition = Null]_vars

\* An id that an earlier update dropped is cached again, as a new entity,
\* next to an entity that has a previous position.
C5_Witness ==
    /\ IsUpdate(lastOp)
    /\ \E id \in dropped \cap MapKeys(cache.movements) :
          /\ MapGet(cache.movements, id).previous = Null
          /\ Reported(cache, id).previousPosition = Null
    /\ \E id \in MapKeys(cache.movements) : Reported(cache, id).previousPosition # Null

\* The cycles that have started and have not ended.
InFlight ==
    pollStats.totalPolls
    - (pollStats.successfulPolls + pollStats.emptyPolls + pollStats.failedPolls)

\* C6: at every moment at most one cycle has started and not ended, it is
\* the one isPolling stands for, and tile fetches exist only for it.
C6_AtMostOneCycle ==
    /\ InFlight \in {0, 1}
    /\ isPolling <=> InFlight = 1
    /\ \A b \in Tiles : isPolling <=> fetches[b] # Idle

\* A timer tick or a start() has just called poll while the cycle of an
\* earlier time is still in flight with a tile pending: it was skipped.
C6_Witness ==
    /\ isPolling
    /\ InFlight = 1
    /\ pollStats.lastPollTime < now
    /\ \E h \in DOMAIN timers : timers[h] = now + POLL_INTERVAL_MS
    /\ \E b \in Tiles : fetches[b] = Pending

\* The step is the callback of a setInterval timer.
TimerTicks ==
    \E h \in DOMAIN timers \cap DOMAIN timers' :
        timers'[h] = timers[h] + POLL_INTERVAL_MS

\* C7: the step in which a cycle ends by a thrown error leaves isPolling
\* false and no tile fetch behind, and a timer tick that finds isPolling
\* false starts a cycle.
C7_ThrowReturnsToIdle ==
    [][/\ pollStats'.failedPolls # pollStats.failedPolls =>
             /\ ~isPolling'
             /\ \A b \in Tiles : fetches'[b] = Idle
       /\ (TimerTicks /\ ~isPolling) =>
             /\ isPolling'
             /\ pollStats'.totalPolls = pollStats.totalPolls + 1]_vars

\* After a cycle that threw, the next timer tick has started a new cycle.
C7_Witness ==
    /\ pollStats.failedPolls = 1
    /\ pollStats.totalPolls = 2
    /\ isPolling
    /\ InFlight = 1
    /\ pollStats.lastPollTime = now
    /\ \E h \in DOMAIN timers : timers[h] = now + POLL_INTERVAL_MS

\* C8: the step in which a cycle ends by a thrown error adds exactly 1 to
\* failedPolls and leaves the whole cache object as it is; and so does every
\* step that starts a cycle or leaves one in flight, so the cache after the
\* failure is the cache of the cycle's start.
C8_FailedCycleKeepsCache ==
    [][/\ pollStats'.failedPolls # pollStats.failedPolls =>
             /\ isPolling
             /\ pollStats'.failedPolls = pollStats.failedPolls + 1
             /\ cache' = cache
       /\ isPolling' => cache' = cache]_vars

\* A cycle that started after the cache was filled has thrown.
C8_Witness ==
    /\ ~isPolling
    /\ lastOp = NoOp
    /\ pollStats.failedPolls = 1
    /\ pollStats.successfulPolls = 1
    /\ pollStats.totalPolls = 2
    /\ pollStats.lastPollTime > cache.lastUpdated
    /\ cache.updateCount = 1
    /\ cache.consecutiveEmptyUpdates = 0
    /\ Len(cache.movements) > 0

\* A cache object as one whole update leaves it: every entity stamped by
\* the update that set lastUpdated, and entities there exactly when updates
\* have been counted.
CacheComplete(c) ==
    /\ \A i \in 1..Len(c.movements) :
          /\ c.movements[i].value.current.timestamp = c.lastUpdated
          /\ c.movements[i].value.current.tripId = c.movements[i].key
    /\ c.updateCount = 0 <=> c.lastUpdated = NoTime
    /\ c.updateCount = 0 <=> c.movements = <<>>

\* C9: at every point where a request handler can run, a poll cycle in
\* flight included, the cache is a complete pre-update or post-update state,
\* and the movements response is the projection of that one state: its
\* entities, count and lastUpdated belong together.
C9_ReadsSeeWholeSnapshot ==
    /\ CacheComplete(cache)
    /\ (IsUpdate(lastOp) /\ lastOp.batch # <<>>) =>
          MapKeys(cache.movements) = BatchIds(lastOp.batch)
    /\ lastOp.op = "GET /api/movements" =>
          /\ lastOp.body.movements = getAll(cache)
          /\ lastOp.body.meta.count = Len(lastOp.body.movements)
          /\ lastOp.body.meta.lastUpdated = cache.lastUpdated
          /\ lastOp.body.meta.ageMs = now - cache.lastUpdated \/ cache.updateCount = 0

\* A movements request has been answered in the middle of a cycle, one tile
\* settled and one pending, from a cache an earlier cycle filled.
C9_Witness ==
    /\ lastOp.op = "GET /api/movements"
    /\ isPolling
    /\ \E b \in Tiles : fetches[b] = Settled
    /\ \E b \in Tiles : fetches[b] = Pending
    /\ Len(lastOp.body.movements) = 2
    /\ lastOp.body.meta.ageMs > 0
    /\ cache.updateCount = 1

\* The entries of a list, as a set.
Entries(list) == {list[i] : i \in 1..Len(list)}

\* C10: for any tile results, the aggregate of fetchAllBoxes holds no trip
\* id twice, holds every trip id some tile result holds, and holds nothing
\* but entries of the tile results.
C10_OneEntryPerTrip ==
    lastOp.op = "aggregated" =>
        LET batch == lastOp.batch
            results == lastOp.results
        IN /\ \A i, j \in 1..Len(batch) : batch[i].tripId = batch[j].tripId => i = j
           /\ BatchIds(batch) = UNION {BatchIds(results[b]) : b \in Tiles}
           /\ Entries(batch) \subseteq UNION {Entries(results[b]) : b \in Tiles}

\* Two tiles have reported the same two trips, four entries in all, and the
\* aggregate holds two.
C10_Witness ==
    /\ lastOp.op = "aggregated"
    /\ Len(lastOp.results[1]) = 2
    /\ Len(lastOp.results[2]) = 2
    /\ BatchIds(lastOp.results[1]) = TripIds
    /\ BatchIds(lastOp.results[2]) = TripIds
    /\ Len(lastOp.batch) = 2

\* The trip ids an upstream reply names.
ReplyIds(reply) == {reply.movements[k].tripId : k \in 1..Len(reply.movements)}

\* The first tile, in configuration order, whose reply names the trip id.
FirstTileWith(replies, id) ==
    CHOOSE b \in Tiles :
        /\ id \in ReplyIds(replies[b])
        /\ \A a \in 1..(b - 1) : id \notin ReplyIds(replies[a])

\* The record fetchBox makes of the first movement of a reply with the id.
FirstRecord(reply, id) ==
    Normalize(reply.movements[CHOOSE k \in 1..Len(reply.movements) :
                                 /\ reply.movements[k].tripId = id
                                 /\ \A j \in 1..(k - 1) : reply.movements[j].tripId # id])

\* The cycle has aggregated its tile results.
HasAggregate == lastOp.op \in {"aggregated", "applied"}

\* C11: whatever the order in which the tile responses arrived, the
\* aggregate holds for every trip id the record of the first tile, in
\* configuration order, that reported it, and the aggregate is what
\* fetchAllBoxes makes of the per-tile results taken in configuration order.
C11_FirstTileWins ==
    HasAggregate =>
        /\ \A i \in 1..Len(lastOp.batch) :
              LET id == lastOp.batch[i].tripId
              IN lastOp.batch[i] =
                    FirstRecord(lastOp.replies[FirstTileWith(lastOp.replies, id)], id)
        /\ lastOp.batch = fetchAllBoxes([b \in Tiles |-> fetchBox(lastOp.replies[b])])

\* The last tile answered first, two tiles reported the same trip at
\* different places, and the aggregate holds the record of the first tile.
C11_Witness ==
    /\ lastOp.op = "aggregated"
    /\ lastOp.order[1] = NumTiles
    /\ \E id \in ReplyIds(lastOp.replies[1]) \cap ReplyIds(lastOp.replies[NumTiles]) :
          /\ FirstRecord(lastOp.replies[1], id) # FirstRecord(lastOp.replies[NumTiles], id)
          /\ \E i \in 1..Len(lastOp.batch) :
                lastOp.batch[i] = FirstRecord(lastOp.replies[1], id)

\* The tiles whose request succeeded with a well-formed payload.
Succeeded(replies) == {b \in Tiles : replies[b].kind = "ok"}

\* The records fetchBox makes of the movements of the tiles that succeeded.
RecordsOfSucceeded(replies) ==
    UNION {{Normalize(replies[b].movements[k]) : k \in 1..Len(replies[b].movements)} :
              b \in Succeeded(replies)}

\* C12: whichever tiles fail (network error, non-success status, malformed
\* payload), the cycle does not throw, every failed tile contributes an empty
\* result, the aggregate holds each trip id of the succeeded tiles once and
\* nothing but their records, and this aggregate is what the cache gets.
C12_TileFailureIsolated ==
    /\ lastOp.op # "thrown"
    /\ pollStats.failedPolls = 0
    /\ lastOp.op = "fetching" =>
          \A b \in DOMAIN lastOp.values \ Succeeded(lastOp.replies) : lastOp.values[b] = <<>>
    /\ HasAggregate =>
          /\ \A b \in Tiles \ Succeeded(lastOp.replies) : lastOp.results[b] = <<>>
          /\ BatchIds(lastOp.batch) =
                UNION {ReplyIds(lastOp.replies[b]) : b \in Succeeded(lastOp.replies)}
          /\ Len(lastOp.batch) = Cardinality(BatchIds(lastOp.batch))
          /\ Entries(lastOp.batch) \subseteq RecordsOfSucceeded(lastOp.replies)
    /\ lastOp.op = "applied" =>
          /\ Len(cache.movements) = Len(lastOp.batch)
          /\ \A i \in 1..Len(lastOp.batch) :
                /\ cache.movements[i].key = lastOp.batch[i].tripId
                /\ SamePlace(cache.movements[i].value.current, lastOp.batch[i])

\* A cycle in which the first tile failed and the last one reported every
\* trip has ended without a throw, and the cache holds every trip.
C12_Witness ==
    /\ lastOp.op = "applied"
    /\ lastOp.replies[1].kind \in {"networkError", "httpError", "malformed"}
    /\ NumTiles \in Succeeded(lastOp.replies)
    /\ ~isPolling
    /\ pollStats.successfulPolls = 1
    /\ MapKeys(cache.movements) = TripIds

\* Some non-empty update has been applied to the cache.
EverUpdated == cache.updateCount > 0

\* C13: getStats().isHealthy is true exactly when a non-empty update has
\* been applied and now - lastUpdated is below 60000 ms; it is true right
\* after every non-empty update, and false whenever the last non-empty
\* update is 60000 ms old or older.
C13_HealthFlag ==
    LET stats == getStats(cache, now)
    IN /\ stats.isHealthy = JsBool(TRUE) <=>
             (EverUpdated /\ now - cache.lastUpdated < 60000)
       /\ (IsUpdate(lastOp) /\ lastOp.batch # <<>>) => stats.isHealthy = JsBool(TRUE)
       /\ (EverUpdated /\ now - cache.lastUpdated >= 60000) =>
             stats.isHealthy = JsBool(FALSE)

\* The cache has been updated twice, has had an empty update since and has
\* aged to the threshold exactly: the flag is false.
C13_Witness ==
    /\ cache.updateCount = 2
    /\ cache.consecutiveEmptyUpdates = 1
    /\ now - cache.lastUpdated = 60000
    /\ getStats(cache, now).ageMs = 60000
    /\ getStats(cache, now).isHealthy = JsBool(FALSE)

\* C14: from a non-empty update on, as long as no further non-empty update
\* is applied (every cycle is empty or failed), no step changes the entity
\* count, lowers ageMs or turns isHealthy from false back to true, and a
\* step of the clock raises ageMs; and while time advances, isHealthy becomes
\* false unless a further non-empty update is applied first.
C14_QuietFeedShows ==
    /\ [][(EverUpdated /\ ~AppliesBatch) =>
             LET before == getStats(cache, now)
                 after == getStats(cache', now')
             IN /\ after.count = before.count
                /\ after.ageMs >= before.ageMs
                /\ now' > now => after.ageMs > before.ageMs
                /\ before.isHealthy = JsBool(FALSE) => after.isHealthy = JsBool(FALSE)]_vars
    /\ \A n \in 1..MaxUpdates :
          (cache.updateCount = n /\ cache.lastUpdated + HEALTHY_MS <= FarHorizon)
             ~> (cache.updateCount > n \/ getStats(cache, now).isHealthy = JsBool(FALSE))

\* After one non-empty update two empty ones have come in while the cache
\* aged past the threshold: the entities are still served and the flag is
\* false.
C14_Witness ==
    /\ cache.updateCount = 1
    /\ cache.consecutiveEmptyUpdates = 2
    /\ IsUpdate(lastOp)
    /\ lastOp.batch = <<>>
    /\ getStats(cache, now).count = 2
    /\ getStats(cache, now).ageMs >= HEALTHY_MS
    /\ getStats(cache, now).isHealthy = JsBool(FALSE)

\* The step just taken answered GET /health.
IsHealthProbe(op) == op.op = "GET /health"

\* C15: GET /health answers "healthy" with 200 exactly when getStats()
\* gives isHealthy = true, and "degraded" with 503 in every other state: when
\* the last non-empty update is too old, and when there has been none.
C15_HealthProbeStatus ==
    IsHealthProbe(lastOp) =>
        LET healthy == getStats(cache, now).isHealthy = JsBool(TRUE)
        IN /\ (lastOp.body.status = "healthy" /\ lastOp.status = 200) <=> healthy
           /\ (lastOp.body.status = "degraded" /\ lastOp.status = 503) <=> ~healthy
           /\ ~EverUpdated => (lastOp.body.status = "degraded" /\ lastOp.status = 503)

\* The probe has been answered "degraded" with 503 by a server whose cache
\* has seen empty updates only.
C15_Witness ==
    /\ IsHealthProbe(lastOp)
    /\ ~EverUpdated
    /\ cache.consecutiveEmptyUpdates > 0
    /\ now > 0
    /\ lastOp.body.status = "degraded"
    /\ lastOp.status = 503

\* C16: the cache object of the /health body has count, ageMs and isHealthy,
\* each equal to what getStats() gives at the time of the call, so that its
\* isHealthy is true exactly when the status is "healthy".
C16_HealthProbeBody ==
    IsHealthProbe(lastOp) =>
        LET stats == getStats(cache, now)
            body == lastOp.body.cache
        IN /\ "count" \in DOMAIN body /\ body.count = stats.count
           /\ "ageMs" \in DOMAIN body /\ body.ageMs = stats.ageMs
           /\ "isHealthy" \in DOMAIN body /\ body.isHealthy = stats.isHealthy
           /\ body.isHealthy = JsBool(TRUE) <=> lastOp.body.status = "healthy"

\* C17: a step that applies a non-empty batch adds exactly 1 to updateCount,
\* an empty update leaves it as it is, and no step of any kind lowers it or
\* changes it otherwise.
C17_UpdateCountCounts ==
    [][/\ AppliesBatch => cache'.updateCount = cache.updateCount + 1
       /\ (IsUpdate(lastOp') /\ lastOp'.batch = <<>>) =>
             cache'.updateCount = cache.updateCount
       /\ cache'.updateCount >= cache.updateCount
       /\ cache'.updateCount # cache.updateCount => AppliesBatch]_vars

\* The second non-empty update, a batch of two, has been counted as one; an
\* empty update had come in before it.
C17_Witness ==
    /\ IsUpdate(lastOp)
    /\ Len(lastOp.batch) = 2
    /\ cache.updateCount = 2
    /\ cache.consecutiveEmptyUpdates = 0
    /\ cache.lastEmptyUpdate # NoTime

\* The number of recordRequest() calls since the last reset() that were made
\* strictly less than 60 s ago.
RecentCalls ==
    Cardinality({i \in 1..Len(recorded) : now - recorded[i] < 60000})

\* The count getStats() of the rate tracker gives when called now.
CountNow == RateStats(cleanupOldRequests(requestTimestamps, now)).count

\* The step just taken returned the statistics of the rate tracker.
IsRateStats(op) == op.op \in {"recordRequest", "GET /api/rate-limit"}

\* C18: at any time the count of getStats() is the number of recordRequest()
\* calls since the last reset() made strictly less than 60 s ago, and so is
\* the count every call returns; while all R calls are inside the window the
\* count is R, and once the latest call is 60 s old or older it is 0.
C18_RateWindow ==
    /\ CountNow = RecentCalls
    /\ IsRateStats(lastOp) => lastOp.body.count = RecentCalls
    /\ (\A i \in 1..Len(recorded) : now - recorded[i] < 60000) =>
          CountNow = Len(recorded)
    /\ (\A i \in 1..Len(recorded) : now - recorded[i] >= 60000) => CountNow = 0

\* Of three requests the first is 60 s old exactly and the others younger:
\* the rate-limit request is answered with a count of two.
C18_Witness ==
    /\ lastOp.op = "GET /api/rate-limit"
    /\ Len(recorded) = 3
    /\ now - recorded[1] = 60000
    /\ now - recorded[2] < 60000
    /\ lastOp.body.count = 2
    /\ Len(requestTimestamps) = 2

\* C19: the statistics getStats() returns for a window of count requests have
\* limit = 100, remaining = limit - count, percentage = 100 * count / limit
\* rounded to the nearest integer (halves upwards), isWarning exactly when
\* percentage >= 50 and isCritical exactly when percentage >= 80, so that
\* isCritical implies isWarning.
C19_RateStatsDerived ==
    lastOp.op = "GET /api/rate-limit" =>
        LET stats == lastOp.body
        IN /\ stats.count = Len(requestTimestamps)
           /\ stats.limit = 100
           /\ stats.remaining = stats.limit - stats.count
           /\ 2 * stats.limit * stats.percentage <= 200 * stats.count + stats.limit
           /\ 200 * stats.count + stats.limit < 2 * stats.limit * (stats.percentage + 1)
           /\ stats.isWarning <=> stats.percentage >= 50
           /\ stats.isCritical <=> stats.percentage >= 80
           /\ stats.isCritical => stats.isWarning

\* The statistics of a window of 50 requests: the warning is on, the
\* critical flag is not.
C19_Witness ==
    /\ lastOp.op = "GET /api/rate-limit"
    /\ lastOp.body.count = 50
    /\ lastOp.body.percentage = 50
    /\ lastOp.body.remaining = 50
    /\ lastOp.body.isWarning
    /\ ~lastOp.body.isCritical

\* The step answers one of the four read requests.
IsRead(op) ==
    op.op \in {"GET /api/movements", "GET /api/stats", "GET /api/rate-limit", "GET /health"}

\* Every timestamp of the window w is a timestamp of the window v, as often.
NothingAdded(v, w) ==
    \A t \in {w[i] : i \in 1..Len(w)} :
        Cardinality({i \in 1..Len(w) : w[i] = t}) <= Cardinality({i \in 1..Len(v) : v[i] = t})

\* C20: a step that answers a movements, stats, rate-limit or health
\* request, at any point of the poller's life, starts no cycle and no tile
\* fetch, arms no timer, makes no recordRequest() call and puts no timestamp
\* into the rate window, and leaves the whole cache object as it is.
C20_ReadsChangeNothing ==
    [][IsRead(lastOp') =>
          /\ fetches' = fetches
          /\ isPolling' = isPolling
          /\ pollStats' = pollStats
          /\ timers' = timers
          /\ pollInterval' = pollInterval
          /\ recorded' = recorded
          /\ NothingAdded(requestTimestamps, requestTimestamps')
          /\ cache'.movements = cache.movements
          /\ cache'.lastUpdated = cache.lastUpdated
          /\ cache'.updateCount = cache.updateCount
          /\ cache'.consecutiveEmptyUpdates = cache.consecutiveEmptyUpdates]_vars

\* A rate-limit request has been answered in the middle of the second
\* cycle, a tile fetch pending: the window holds the requests of the two
\* cycles and the cache one update.
C20_Witness ==
    /\ lastOp.op = "GET /api/rate-limit"
    /\ isPolling
    /\ \E b \in Tiles : fetches[b] = Pending
    /\ pollStats.totalPolls = 2
    /\ cache.updateCount = 1
    /\ lastOp.body.count = 2 * NumTiles
    /\ Len(recorded) = 2 * NumTiles

\* The step is a call of start().
Starts == handles' = handles + 1

\* C21: a start() step leaves the poller polling at the time of the call: if
\* no cycle was in flight it has started one, with every tile fetch pending,
\* without the clock moving; it arms a timer whose first tick is one period
\* of 20 s later. A timer ticks only when it is due, its next tick is one
\* period later, the tick calls poll, and the clock never passes a tick.
C21_StartPollsAtOnce ==
    [][/\ Starts =>
             /\ isPolling'
             /\ now' = now
             /\ ~isPolling =>
                   /\ pollStats'.totalPolls = pollStats.totalPolls + 1
                   /\ pollStats'.lastPollTime = now
                   /\ \A b \in Tiles : fetches'[b] = Pending
             /\ pollInterval' \in DOMAIN timers' \ DOMAIN timers
             /\ timers'[pollInterval'] = now + 20000
       /\ TimerTicks =>
             /\ \E h \in DOMAIN timers : timers[h] = now /\ timers'[h] = now + 20000
             /\ isPolling'
             /\ now' = now
       /\ \A h \in DOMAIN timers' : timers'[h] >= now']_vars

\* start() was called 20 s after the process came up: the first cycle is in
\* flight at that very time and the first tick is due 20 s later.
C21_Witness ==
    /\ handles = 1
    /\ now = ClockStep
    /\ isPolling
    /\ pollStats.totalPolls = 1
    /\ pollStats.lastPollTime = now
    /\ \A b \in Tiles : fetches[b] = Pending
    /\ pollInterval = 1
    /\ timers[1] = now + POLL_INTERVAL_MS

\* No repeating schedule is on: stop() has returned and start() has not been
\* called since, or start() was never called.
Stopped == pollInterval = NoTime

\* C22: from the return of stop() to the next start() no cycle is started,
\* whatever start() and stop() calls came before; the cache changes in that
\* time only when the cycle that was in flight ends, which leaves no cycle
\* in flight, so that at most one cache update follows a stop().
C22_StopCancelsSchedule ==
    [][(Stopped /\ Stopped') =>
          /\ pollStats'.totalPolls = pollStats.totalPolls
          /\ cache' # cache => (isPolling /\ ~isPolling')]_vars

\* C23: as long as no non-empty update has been applied, getStats() gives
\* count = 0, lastUpdated = null and ageMs = null and getAll() is empty;
\* right after an update with a non-empty batch, count and the length of
\* getAll() both equal the number of distinct trip ids of the batch.
C23_CountsMatchBatch ==
    LET stats == getStats(cache, now)
    IN /\ ~EverUpdated =>
             /\ stats.count = 0
             /\ stats.lastUpdated = NoTime
             /\ stats.ageMs = NoTime
             /\ getAll(cache) = <<>>
       /\ (IsUpdate(lastOp) /\ lastOp.batch # <<>>) =>
             /\ stats.count = Cardinality(BatchIds(lastOp.batch))
             /\ Len(getAll(cache)) = Cardinality(BatchIds(lastOp.batch))

\* A batch that names one trip twice has been applied to a cache that held
\* two entities: one entity is counted and listed.
C23_Witness ==
    /\ IsUpdate(lastOp)
    /\ Len(lastOp.batch) = 2
    /\ Cardinality(BatchIds(lastOp.batch)) = 1
    /\ Cardinality(dropped) = 1
    /\ getStats(cache, now).count = 1
    /\ Len(getAll(cache)) = 1

\* C24: a timer tick that finds a cycle in flight changes no poll counter,
\* no rate window, no tile fetch and nothing of the cache, and the cycle
\* stays in flight; a cycle starts only in a step that is a tick or a
\* start() call, so the step in which a cycle ends starts none.
C24_SkippedTickIsDropped ==
    [][/\ (TimerTicks /\ isPolling) =>
             /\ pollStats' = pollStats
             /\ recorded' = recorded
             /\ requestTimestamps' = requestTimestamps
             /\ cache' = cache
             /\ fetches' = fetches
             /\ isPolling'
       /\ pollStats'.totalPolls # pollStats.totalPolls => (TimerTicks \/ Starts)
       /\ (isPolling /\ ~isPolling') =>
             /\ pollStats'.totalPolls = pollStats.totalPolls
             /\ \A b \in Tiles : fetches'[b] = Idle]_vars

\* The tick at 20 s found the first cycle in flight and was dropped; the
\* cycle has ended since, and no cycle has started: the next tick is due at
\* 40 s.
C24_Witness ==
    /\ handles = 1
    /\ now = POLL_INTERVAL_MS
    /\ timers = <<2 * POLL_INTERVAL_MS>>
    /\ pollStats.totalPolls = 1
    /\ pollStats.lastPollTime = 0
    /\ pollStats.successfulPolls = 1
    /\ ~isPolling
    /\ Len(recorded) = NumTiles
    /\ cache.lastUpdated = now

\* The number of timestamps t in the window w.
CountAt(w, t) == Cardinality({i \in 1..Len(w) : w[i] = t})

\* The step starts a cycle.
StartsCycle == pollStats'.totalPolls = pollStats.totalPolls + 1

\* The step records n requests, one per tile, as it sends the tiles'
\* upstream requests if it starts a cycle, and records nothing otherwise.
RecordsPerCycle(n) ==
    IF StartsCycle
    THEN /\ recorded' = recorded \o [i \in 1..n |-> now]
         /\ CountAt(requestTimestamps', now) = CountAt(requestTimestamps, now) + n
         /\ \A b \in Boxes : fetches[b] = Idle /\ fetches'[b] = Pending
    ELSE /\ recorded' = recorded
         /\ Len(requestTimestamps') <= Len(requestTimestamps)
         /\ \A b \in Boxes : fetches'[b] = Pending => fetches[b] = Pending

UpdateCalls == cache.updateCount + cache.consecutiveEmptyUpdates

\* C26: in a cycle the cache is left as it was until every tile has settled;
\* the aggregate is made of the result of every tile of the cycle, and
\* cache.update is called with it once, so that the cache after the cycle
\* is the cache before it updated once with the aggregate of all tiles.
C26_FanIn ==
    /\ UpdateCalls <= 1
    /\ lastOp.op \in {"fetching", "thrown", "aggregated"} => cache = CacheInit
    /\ HasAggregate =>
          /\ DOMAIN lastOp.results = Tiles
          /\ {lastOp.order[i] : i \in 1..Len(lastOp.order)} = Tiles
          /\ \A b \in Tiles : lastOp.results[b] = fetchBox(lastOp.replies[b])
          /\ lastOp.batch = fetchAllBoxes(lastOp.results)
    /\ lastOp.op = "aggregated" => \A b \in Tiles : fetches[b] = Settled
    /\ lastOp.op = "applied" =>
          /\ UpdateCalls = 1
          /\ cache = update(CacheInit, lastOp.batch, now)

\* The last tile answered first, and the cycle has updated the cache with
\* the vehicles of more than one tile.
C26_Witness ==
    /\ lastOp.op = "applied"
    /\ lastOp.order[1] = NumTiles
    /\ \A b \in Tiles : lastOp.results[b] # <<>>
    /\ cache.updateCount = 1
    /\ Len(cache.movements) = MaxLen

\* C27: in the running server a step changes the cache only while a cycle
\* is in flight, and that step is the cycle's one cache.update call, made
\* when every tile has settled and ending the cycle; while the scheduler is
\* idle no step changes the cache, and there is never more than one cycle
\* in flight to change it.
C27_SingleWriter ==
    [][/\ InFlight <= 1
       /\ ~isPolling => cache' = cache
       /\ cache' # cache =>
             /\ isPolling
             /\ \A b \in Boxes : fetches[b] = Settled
             /\ IsUpdate(lastOp')
             /\ cache' = update(cache, lastOp'.batch, now)
             /\ ~isPolling']_vars

\* Two cycles, one after the other, have each written the cache; the
\* scheduler is idle again.
C27_Witness ==
    /\ IsUpdate(lastOp)
    /\ cache.updateCount = 2
    /\ pollStats.successfulPolls = 2
    /\ ~isPolling
    /\ now = POLL_INTERVAL_MS

\* C28: lastUpdated is null exactly as long as no non-empty update has been
\* applied; a step that applies a non-empty update sets it to the time of
\* that update and no other step (an empty cycle, a failed cycle, a tick, a
\* passing of time) changes it, so it never moves backwards; and the ageMs
\* reported is the time passed since then.
C28_LastUpdatedIsLastNonEmpty ==
    [][/\ (cache.lastUpdated = NoTime) <=> (cache.updateCount = 0)
       /\ (cache'.lastUpdated = NoTime) <=> (cache'.updateCount = 0)
       /\ IF AppliesBatch
          THEN cache'.lastUpdated = now /\ now' = now
          ELSE cache'.lastUpdated = cache.lastUpdated
       /\ cache'.lastUpdated >= cache.lastUpdated
       /\ getStats(cache', now').ageMs =
             IF cache'.updateCount = 0 THEN NoTime ELSE now' - cache'.lastUpdated
       /\ getStats(cache', now').lastUpdated = cache'.lastUpdated]_vars

\* A non-empty cycle at time 0, an empty one at 20 s, and 20 s more have
\* passed: the age is 40 s.
C28_Witness ==
    /\ pollStats.successfulPolls = 1
    /\ pollStats.emptyPolls = 1
    /\ cache.lastEmptyUpdate = POLL_INTERVAL_MS
    /\ cache.lastUpdated = 0
    /\ now = 2 * POLL_INTERVAL_MS
    /\ getStats(cache, now).ageMs = 2 * POLL_INTERVAL_MS

\* C29: the counter of consecutive empty updates is 0 until the first empty
\* update, every empty update adds one to it, every non-empty update sets it
\* to 0 and nothing else changes it: it is the number of empty updates
\* received since the most recent non-empty one, all of them later than it.
C29_ConsecutiveEmptyCounts ==
    [][/\ cache.lastEmptyUpdate = NoTime => cache.consecutiveEmptyUpdates = 0
       /\ cache'.consecutiveEmptyUpdates =
             IF ~IsUpdate(lastOp') THEN cache.consecutiveEmptyUpdates
             ELSE IF lastOp'.batch = <<>> THEN cache.consecutiveEmptyUpdates + 1
             ELSE 0
       /\ cache'.consecutiveEmptyUpdates > 0 =>
             cache'.lastEmptyUpdate >= cache'.lastUpdated
       /\ (cache'.consecutiveEmptyUpdates = 0 /\ cache'.lastEmptyUpdate # NoTime) =>
             cache'.lastUpdated >= cache'.lastEmptyUpdate]_vars

\* A non-empty update, an empty one, and a non-empty one that has just set
\* the counter back to 0.
C29_Witness ==
    /\ IsUpdate(lastOp)
    /\ lastOp.batch # <<>>
    /\ cache.updateCount = 2
    /\ cache.lastEmptyUpdate # NoTime
    /\ cache.lastEmptyUpdate < cache.lastUpdated
    /\ cache.consecutiveEmptyUpdates = 0

\* C30: whatever the step (a non-empty update, an empty one, time passing),
\* an entity that is in the cache before and after it keeps its firstSeen,
\* and an entity that enters the cache, for the first time or again after
\* it was dropped, gets the time of that update; firstSeen is never later
\* than the entity's current timestamp.
C30_FirstSeenPreserved ==
    [][\A id \in MapKeys(cache'.movements) :
          LET vehicle == MapGet(cache'.movements, id)
          IN /\ vehicle.firstSeen =
                   IF MapHas(cache.movements, id)
                   THEN MapGet(cache.movements, id).firstSeen
                   ELSE now
             /\ vehicle.firstSeen <= vehicle.current.timestamp]_vars

\* One entity has been in the batches at time 0 and at 40 s, with an empty
\* update in between, and was first seen at 0; another entered at 40 s.
C30_Witness ==
    /\ cache.updateCount = 2
    /\ cache.lastEmptyUpdate = POLL_INTERVAL_MS
    /\ cache.lastUpdated = 2 * POLL_INTERVAL_MS
    /\ \E id \in MapKeys(cache.movements) :
          /\ MapGet(cache.movements, id).firstSeen = 0
          /\ MapGet(cache.movements, id).current.timestamp = 2 * POLL_INTERVAL_MS
    /\ \E id \in MapKeys(cache.movements) :
          MapGet(cache.movements, id).firstSeen = 2 * POLL_INTERVAL_MS

\* C31: when every tile request is answered in the end, a cycle in flight
\* always ends and the scheduler is idle again, and a tick that finds it
\* idle starts the next cycle; and as long as one tile request of the cycle
\* is unanswered, no step ends the cycle: the scheduler stays in Polling,
\* every tick is skipped and no cycle starts.
C31_CycleTerminates ==
    /\ isPolling ~> ~isPolling
    /\ [][/\ (TimerTicks /\ ~isPolling) => (StartsCycle /\ isPolling')
          /\ (isPolling /\ \E b \in Boxes : fetches[b] # Settled) =>
                /\ isPolling'
                /\ pollStats'.totalPolls = pollStats.totalPolls
                /\ InFlight' = 1
                /\ cache' = cache]_vars

\* Two cycles have started, each had all its tiles answered, and each has
\* ended: the scheduler is idle.
C31_Witness ==
    /\ pollStats.totalPolls = 2
    /\ InFlight = 0
    /\ pollStats.failedPolls = 0
    /\ ~isPolling
    /\ \A b \in Boxes : fetches[b] = Idle
    /\ pollStats.lastPollTime = POLL_INTERVAL_MS

\* C32: the step in which a cycle applies a non-empty aggregate after one or
\* more consecutive empty cycles sets the poller's and the cache's counters
\* of consecutive empties to 0 and lastUpdated to the time of that update,
\* after which isHealthy is true; and every entity of the aggregate that the
\* cache held through the outage gets as previous position the current
\* position and timestamp it had in the cache, which date from before the
\* outage.
C32_RecoveryAfterOutage ==
    [][(AppliesBatch /\ pollStats.consecutiveEmptyPolls >= 1) =>
          /\ cache.consecutiveEmptyUpdates = pollStats.consecutiveEmptyPolls
          /\ pollStats'.consecutiveEmptyPolls = 0
          /\ cache'.consecutiveEmptyUpdates = 0
          /\ cache'.lastUpdated = now
          /\ pollStats'.lastNonEmptyPollTime = now
          /\ getStats(cache', now').isHealthy = JsBool(TRUE)
          /\ \A id \in BatchIds(lastOp'.batch) \cap MapKeys(cache.movements) :
                LET before == MapGet(cache.movements, id).current
                    after == MapGet(cache'.movements, id).previous
                IN /\ after # Null
                   /\ SamePlace(after, before)
                   /\ after.timestamp = before.timestamp
                   /\ before.timestamp = cache.lastUpdated
                   /\ before.timestamp <= cache.lastEmptyUpdate]_vars

\* Data at time 0, an empty cycle that ended at 40 s, and at 60 s, when the
\* cache had aged to the health threshold, a cycle with data: the entity
\* cached at 0 has its position of then as the previous one.
C32_Witness ==
    /\ IsUpdate(lastOp)
    /\ lastOp.batch # <<>>
    /\ now = 3 * POLL_INTERVAL_MS
    /\ cache.lastUpdated = now
    /\ cache.updateCount = 2
    /\ cache.lastEmptyUpdate = 2 * POLL_INTERVAL_MS
    /\ pollStats.emptyPolls = 1
    /\ pollStats.consecutiveEmptyPolls = 0
    /\ getStats(cache, now).isHealthy = JsBool(TRUE)
    /\ \E id \in MapKeys(cache.movements) :
          /\ MapGet(cache.movements, id).previous # Null
          /\ MapGet(cache.movements, id).previous.timestamp = 0

\* C33: a movements response, given at any point of a poll cycle or between
\* cycles, has meta.count equal to the number of its movements, and its
\* movements, meta.lastUpdated, meta.ageMs and meta.isHealthy are those of
\* the one cache state of the moment of the request: one entry per cached
\* entity, the time of the update that stamped them, the time passed since,
\* and whether that is less than a minute.
C33_MovementsMetaConsistent ==
    lastOp.op = "GET /api/movements" =>
        LET body == lastOp.body
            meta == body.meta
        IN /\ lastOp.status = 200
           /\ meta.count = Len(body.movements)
           /\ meta.count = Len(cache.movements)
           /\ {body.movements[i].tripId : i \in 1..Len(body.movements)}
                 = MapKeys(cache.movements)
           /\ meta.lastUpdated = cache.lastUpdated
           /\ \A i \in 1..Len(cache.movements) :
                 cache.movements[i].value.current.timestamp = meta.lastUpdated
           /\ IF cache.updateCount = 0
              THEN /\ body.movements = <<>>
                   /\ meta.lastUpdated = NoTime
                   /\ meta.ageMs = NoTime
                   /\ meta.isHealthy = JsNull
              ELSE /\ meta.ageMs = now - meta.lastUpdated
                   /\ meta.isHealthy = JsBool(meta.ageMs < 60000)

\* A movements request answered while the second cycle is in flight: one
\* entity, cached 40 s ago, and the cache counts as healthy.
C33_Witness ==
    /\ lastOp.op = "GET /api/movements"
    /\ isPolling
    /\ pollStats.totalPolls = 2
    /\ lastOp.body.meta.count = 1
    /\ Len(lastOp.body.movements) = 1
    /\ lastOp.body.meta.lastUpdated = 0
    /\ lastOp.body.meta.ageMs = 2 * POLL_INTERVAL_MS
    /\ lastOp.body.meta.isHealthy = JsBool(TRUE)

\* C34: whenever the scheduler of the running server is idle, the poller's
\* count of consecutive empty polls is the cache's count of consecutive
\* empty updates, its count of successful polls is the cache's updateCount,
\* and every poll counted in totalPolls is counted as successful, empty or
\* failed; while a cycle is in flight, that one cycle is the only one not
\* yet counted.
C34_BookkeepingAgrees ==
    /\ pollStats.consecutiveEmptyPolls = cache.consecutiveEmptyUpdates
    /\ pollStats.successfulPolls = cache.updateCount
    /\ pollStats.totalPolls =
          pollStats.successfulPolls + pollStats.emptyPolls + pollStats.failedPolls
          + (IF isPolling THEN 1 ELSE 0)
    /\ pollStats.consecutiveEmptyPolls <= pollStats.emptyPolls
    /\ (pollStats.lastNonEmptyPollTime = NoTime) <=> (pollStats.successfulPolls = 0)

\* The scheduler is idle after a cycle with data and an empty one.
C34_Witness ==
    /\ ~isPolling
    /\ pollStats.totalPolls = 2
    /\ pollStats.successfulPolls = 1
    /\ pollStats.emptyPolls = 1
    /\ pollStats.consecutiveEmptyPolls = 1
    /\ cache.consecutiveEmptyUpdates = 1
    /\ cache.updateCount = 1

\* The requests recorded within the rate window that ends now.
RecordedInWindow == {i \in 1..Len(recorded) : recorded[i] > now - WINDOW_MS}

\* The rate statistics an observer gets now.
RateStatsNow == RateStats(cleanupOldRequests(requestTimestamps, now))

MapDelete(m, k) == SelectSeq(m, LAMBDA e : e.key # k)

\* The lists of movements a response of GET /api/movements can carry.
ServedLists == SeqsUpTo({m \in Movements : m.latitude = 1}, MaxLen)

\* meta.ageMs of a response: null before the first update of the cache, or
\* the age of a cache that has missed two polls.
ServedAges == {NoTime, 3 * POLL_INTERVAL_MS}

\* What fetch() of /api/movements can give: a rejection (network error), a
\* response that is not ok, a body that is not JSON, a JSON body without
\* movements, or the body of the server.
MapReplies ==
    {[settled |-> "rejected", ok |-> FALSE, body |-> Null],
     [settled |-> "fulfilled", ok |-> FALSE, body |-> Null],
     [settled |-> "fulfilled", ok |-> TRUE, body |-> Null],
     [settled |-> "fulfilled", ok |-> TRUE, body |-> [error |-> "Not found"]]}
    \cup {[settled |-> "fulfilled", ok |-> TRUE,
           body |-> [movements |-> list, meta |-> [ageMs |-> age]]] :
             list \in ServedLists, age \in ServedAges}

\* getData() of the frontend, applied to what fetch() gave.
getData(reply) ==
    LET caught == [movements |-> <<>>, cacheAge |-> 0, isStale |-> FALSE]
    IN IF reply.settled = "rejected" THEN caught
       ELSE IF ~reply.ok THEN caught
       ELSE IF reply.body = Null THEN caught
       ELSE LET result == reply.body
                cacheAge == IF "meta" \in DOMAIN result /\ result.meta.ageMs # NoTime
                            THEN result.meta.ageMs
                            ELSE 0
            IN [movements |-> IF "movements" \in DOMAIN result
                              THEN result.movements
                              ELSE <<>>,
                cacheAge |-> cacheAge,
                isStale |-> cacheAge > STALE_AGE_MS]

\* for (const entry of markers.values()) entry.misses += 1
AddMiss(ms) ==
    [i \in 1..Len(ms) |->
        [ms[i] EXCEPT !.value = [@ EXCEPT !.misses = @ + 1]]]

\* The body of allData.forEach for one movement: a trip without a marker
\* gets one, the marker of a known trip is marked seen and styled by type.
PlaceMovement(ms, movement, t) ==
    IF ~MapHas(ms, movement.tripId)
    THEN MapSet(ms, movement.tripId,
                [misses |-> 0, lastSeen |-> t, type |-> movement.type,
                 isMissed |-> FALSE])
    ELSE MapSet(ms, movement.tripId,
                [MapGet(ms, movement.tripId) EXCEPT
                    !.misses = 0, !.lastSeen = t, !.isMissed = FALSE])

RECURSIVE PlaceAll(_, _, _)
PlaceAll(ms, allData, t) ==
    IF allData = <<>>
    THEN ms
    ELSE PlaceAll(PlaceMovement(ms, Head(allData), t), Tail(allData), t)

\* Mutant of cleanup: a marker is kept until it has missed six responses.
cleanupAtSix(ms) ==
    LET kept == SelectSeq(ms, LAMBDA e : ~(e.value.misses >= 6))
    IN [i \in 1..Len(kept) |->
           IF kept[i].value.misses >= 1
           THEN [kept[i] EXCEPT !.value = [@ EXCEPT !.isMissed = TRUE]]
           ELSE kept[i]]

\* The cleanup loop: a marker with MISS_LIMIT misses is removed, one with
\* fewer misses gets the style of a missed vehicle.
cleanup(ms) ==
    LET kept == SelectSeq(ms, LAMBDA e : ~(e.value.misses >= MISS_LIMIT))
    IN [i \in 1..Len(kept) |->
           IF kept[i].value.misses >= 1
           THEN [kept[i] EXCEPT !.value = [@ EXCEPT !.isMissed = TRUE]]
           ELSE kept[i]]

\* Array.isArray(allData) && allData.length > 0
HasData(allData) == Len(allData) > 0

\* One run of updateMarkers(). The counter of cycles is read by log lines
\* only, so the step before the await and the one after it are one step.
UpdateMarkers ==
    \E reply \in MapReplies :
        LET result == getData(reply)
            allData == result.movements
        IN /\ mapStats.updateCycleCount < MaxMapUpdates
           /\ IF ~HasData(allData)
              THEN /\ mapStats' = [mapStats EXCEPT
                                      !.updateCycleCount = @ + 1,
                                      !.consecutiveEmptyUpdates = @ + 1]
                   /\ UNCHANGED <<markers, responses>>
              ELSE /\ mapStats' = [mapStats EXCEPT
                                      !.updateCycleCount = @ + 1,
                                      !.consecutiveEmptyUpdates = 0,
                                      !.lastNonEmptyUpdate = now]
                   /\ markers' = cleanup(PlaceAll(AddMiss(markers), allData, now))
                   /\ responses' =
                        <<{allData[i].tripId : i \in 1..Len(allData)}>> \o responses
           /\ lastOp' = [op |-> "updateMarkers", reply |-> reply, result |-> result]
           /\ UNCHANGED <<now, cache, dropped, recorded, requestTimestamps, pollerVars,
                          allTrips, pollCount, trackerPending, trackerExited>>

\* The map client on its own, with time passing between its updates.
NextMap == UpdateMarkers \/ Clock

SpecMap == Init /\ [][NextMap]_vars

IsMapUpdate(op) == op.op = "updateMarkers"

\* The number of latest non-empty responses that lack the trip, up to the
\* latest one that has it.
RECURSIVE AbsentRun(_, _)
AbsentRun(history, id) ==
    IF history = <<>> \/ id \in Head(history)
    THEN 0
    ELSE 1 + AbsentRun(Tail(history), id)

\* The trip was in some non-empty response.
EverServed(id) == \E i \in 1..Len(responses) : id \in responses[i]

\* C36: the map client shows a marker for a trip exactly when the trip was
\* in a non-empty response and has been absent from fewer than 3 non-empty
\* responses in a row since; the miss count of the marker is the length of
\* that run, so it is 0 when the trip was in the latest non-empty response
\* and always in 0..2; an empty or failed response leaves every marker and
\* every miss count as it was.
C36_MarkerDebounce ==
    /\ [](\A id \in TripIds :
            /\ MapHas(markers, id) <=>
                  (EverServed(id) /\ AbsentRun(responses, id) < 3)
            /\ MapHas(markers, id) =>
                  /\ MapGet(markers, id).misses = AbsentRun(responses, id)
                  /\ MapGet(markers, id).misses \in 0..2)
    /\ [][(IsMapUpdate(lastOp') /\ ~HasData(lastOp'.result.movements))
             => markers' = markers]_vars

\* A marker was removed by the third non-empty response in a row without
\* its trip, after an empty response in between had left it alone.
C36_Witness ==
    /\ IsMapUpdate(lastOp)
    /\ HasData(lastOp.result.movements)
    /\ mapStats.updateCycleCount = 5
    /\ Len(responses) = 4
    /\ "t1" \in responses[4]
    /\ AbsentRun(responses, "t1") = 3
    /\ ~MapHas(markers, "t1")
    /\ MapHas(markers, "t2")

\* ------------------------------------------------------------ tripTracker.js
\* The trips the tracker reports on one by one.
FOCUS_TRIP_IDS == {"t1"}

\* '' of JavaScript in a column that holds numbers
NoNumber == NoTime

\* What fetch() of the radar endpoint can give the tracker: a rejection, a
\* response that is not ok, a body that is not JSON, an empty array, an
\* object without movements, or an object with a list of movements.
TrackerReplies ==
    {[settled |-> "rejected", ok |-> FALSE, json |-> "none", body |-> Null],
     [settled |-> "fulfilled", ok |-> FALSE, json |-> "none", body |-> Null],
     [settled |-> "fulfilled", ok |-> TRUE, json |-> "invalid", body |-> Null],
     [settled |-> "fulfilled", ok |-> TRUE, json |-> "emptyArray", body |-> Null],
     [settled |-> "fulfilled", ok |-> TRUE, json |-> "object",
      body |-> [message |-> "Bad request"]]}
    \cup {[settled |-> "fulfilled", ok |-> TRUE, json |-> "object",
           body |-> [movements |-> list]] : list \in SeqsUpTo(RadarMovements, MaxLen)}

\* fetchVBBData(), applied to what fetch() gave: null, or result.movements.
fetchVBBData(reply) ==
    LET null == [isNull |-> TRUE, movements |-> <<>>]
    IN IF reply.settled = "rejected" THEN null
       ELSE IF ~reply.ok THEN null
       ELSE IF reply.json = "invalid" THEN null
       ELSE IF reply.json = "emptyArray" THEN null
       ELSE IF "movements" \notin DOMAIN reply.body THEN null
       ELSE [isNull |-> FALSE, movements |-> reply.body.movements]

\* new Set(movements.map(m => m.tripId)), in its order of iteration
RECURSIVE currentTripIds(_)
currentTripIds(movements) ==
    IF movements = <<>>
    THEN <<>>
    ELSE LET rest == currentTripIds(SubSeq(movements, 1, Len(movements) - 1))
             id == movements[Len(movements)].tripId
         IN IF \E i \in 1..Len(rest) : rest[i] = id THEN rest ELSE Append(rest, id)

\* movementData.get(tripId): the last movement of the trip in the response
movementData(movements, tripId) ==
    LET last == CHOOSE i \in 1..Len(movements) :
                    /\ movements[i].tripId = tripId
                    /\ \A j \in (i + 1)..Len(movements) : movements[j].tripId # tripId
        m == movements[last]
    IN [name |-> m.line.name,
        direction |-> m.direction,
        latitude |-> m.location.latitude,
        longitude |-> m.location.longitude]

TripEvent(t, tripId, event, totalVehicles, trip, data) ==
    [timestamp |-> t,
     tripId |-> tripId,
     event |-> event,
     isFocused |-> tripId \in FOCUS_TRIP_IDS,
     totalVehicles |-> totalVehicles,
     destroyCount |-> trip.destroyCount,
     reappearCount |-> trip.reappearCount,
     name |-> data.name,
     direction |-> data.direction,
     latitude |-> data.latitude,
     longitude |-> data.longitude]

\* Mutant of SeeTrip: a trip that comes back is counted as still present.
SeeTripNoReappear(acc, tripId, movements, t) ==
    LET data == movementData(movements, tripId)
        trips == acc.trips
    IN IF ~MapHas(trips, tripId)
       THEN LET trip == [present |-> TRUE, firstSeen |-> t, lastSeen |-> t,
                         destroyCount |-> 0, reappearCount |-> 0, data |-> data]
            IN [trips |-> MapSet(trips, tripId, trip),
                events |-> Append(acc.events,
                                  TripEvent(t, tripId, "CREATED", Len(movements), trip, data))]
       ELSE LET trip == [MapGet(trips, tripId) EXCEPT
                            !.present = TRUE, !.lastSeen = t, !.data = data]
            IN [trips |-> MapSet(trips, tripId, trip),
                events |-> Append(acc.events,
                                  TripEvent(t, tripId, "STILL_PRESENT", Len(movements),
                                            trip, data))]

\* The body of the first loop of processMovements for one trip id of the
\* response: CREATED, REAPPEARED or STILL_PRESENT.
SeeTrip(acc, tripId, movements, t) ==
    LET data == movementData(movements, tripId)
        trips == acc.trips
    IN IF ~MapHas(trips, tripId)
       THEN LET trip == [present |-> TRUE, firstSeen |-> t, lastSeen |-> t,
                         destroyCount |-> 0, reappearCount |-> 0, data |-> data]
            IN [trips |-> MapSet(trips, tripId, trip),
                events |-> Append(acc.events,
                                  TripEvent(t, tripId, "CREATED", Len(movements), trip, data))]
       ELSE IF ~MapGet(trips, tripId).present
       THEN LET trip == [MapGet(trips, tripId) EXCEPT
                            !.reappearCount = @ + 1, !.present = TRUE,
                            !.lastSeen = t, !.data = data]
            IN [trips |-> MapSet(trips, tripId, trip),
                events |-> Append(acc.events,
                                  TripEvent(t, tripId, "REAPPEARED", Len(movements),
                                            trip, data))]
       ELSE LET trip == [MapGet(trips, tripId) EXCEPT !.lastSeen = t, !.data = data]
            IN [trips |-> MapSet(trips, tripId, trip),
                events |-> Append(acc.events,
                                  TripEvent(t, tripId, "STILL_PRESENT", Len(movements),
                                            trip, data))]

RECURSIVE SeeTrips(_, _, _, _)
SeeTrips(acc, ids, movements, t) ==
    IF ids = <<>>
    THEN acc
    ELSE SeeTrips(SeeTrip(acc, Head(ids), movements, t), Tail(ids), movements, t)

\* Mutant of MissTrip: a trip that is gone is reported but stays marked
\* present.
MissTripStaysPresent(acc, tripId, ids, movements, t) ==
    LET old == MapGet(acc.trips, tripId)
    IN IF old.present /\ ~(\E i \in 1..Len(ids) : ids[i] = tripId)
       THEN LET trip == [old EXCEPT !.destroyCount = @ + 1]
            IN [trips |-> MapSet(acc.trips, tripId, trip),
                events |-> Append(acc.events,
                                  TripEvent(t, tripId, "DESTROYED", Len(movements), trip,
                                            [name |-> "", direction |-> "",
                                             latitude |-> NoNumber,
                                             longitude |-> NoNumber]))]
       ELSE acc

\* The body of the second loop of processMovements for one tracked trip:
\* DESTROYED when it was present and is not in the response.
MissTrip(acc, tripId, ids, movements, t) ==
    LET old == MapGet(acc.trips, tripId)
    IN IF old.present /\ ~(\E i \in 1..Len(ids) : ids[i] = tripId)
       THEN LET trip == [old EXCEPT !.destroyCount = @ + 1, !.present = FALSE]
            IN [trips |-> MapSet(acc.trips, tripId, trip),
                events |-> Append(acc.events,
                                  TripEvent(t, tripId, "DESTROYED", Len(movements), trip,
                                            [name |-> "", direction |-> "",
                                             latitude |-> NoNumber,
                                             longitude |-> NoNumber]))]
       ELSE acc

RECURSIVE MissTrips(_, _, _, _, _)
MissTrips(acc, i, ids, movements, t) ==
    IF i > Len(acc.trips)
    THEN acc
    ELSE MissTrips(MissTrip(acc, acc.trips[i].key, ids, movements, t),
                   i + 1, ids, movements, t)

\* processMovements(movements) at time t: the trips after it and the events
\* it returns.
processMovements(trips, movements, t) ==
    LET ids == currentTripIds(movements)
        seen == SeeTrips([trips |-> trips, events |-> <<>>], ids, movements, t)
    IN MissTrips(seen, 1, ids, movements, t)

RECURSIVE SumOver(_, _, _)
SumOver(trips, i, field) ==
    IF i > Len(trips) THEN 0 ELSE trips[i].value[field] + SumOver(trips, i + 1, field)

\* The totals printSummary() prints.
printSummary(trips, polls) ==
    LET totalDestroys == SumOver(trips, 1, "destroyCount")
        totalReappears == SumOver(trips, 1, "reappearCount")
    IN [totalPolls |-> polls,
        tracked |-> Len(trips),
        totalDestroys |-> totalDestroys,
        totalReappears |-> totalReappears,
        falseDestroys |-> totalReappears,
        trueEnds |-> totalDestroys - totalReappears]

\* poll() up to its await: the first call at startup or a tick of the
\* interval.
TrackerPoll ==
    /\ ~trackerExited
    /\ pollCount < MaxTrackerPolls
    /\ pollCount' = pollCount + 1
    /\ trackerPending' = trackerPending + 1
    /\ lastOp' = [op |-> "poll"]
    /\ UNCHANGED <<now, cache, dropped, recorded, requestTimestamps, pollerVars,
                   markers, mapStats, responses, allTrips, trackerExited>>

\* poll() from its await on: the fetch has settled.
TrackerSettle ==
    \E reply \in TrackerReplies :
        LET movements == fetchVBBData(reply)
            result == processMovements(allTrips, movements.movements, now)
        IN /\ ~trackerExited
           /\ trackerPending > 0
           /\ trackerPending' = trackerPending - 1
           /\ IF movements.isNull
              THEN /\ allTrips' = allTrips
                   /\ lastOp' = [op |-> "polled", reply |-> reply,
                                 processed |-> FALSE, events |-> <<>>]
              ELSE /\ allTrips' = result.trips
                   /\ lastOp' = [op |-> "polled", reply |-> reply,
                                 processed |-> TRUE, events |-> result.events]
           /\ UNCHANGED <<now, cache, dropped, recorded, requestTimestamps, pollerVars,
                          markers, mapStats, responses, pollCount, trackerExited>>

\* SIGINT: the summary is printed and the process exits.
TrackerInterrupt ==
    /\ ~trackerExited
    /\ trackerExited' = TRUE
    /\ lastOp' = [op |-> "summary", body |-> printSummary(allTrips, pollCount)]
    /\ UNCHANGED <<now, cache, dropped, recorded, requestTimestamps, pollerVars,
                   markers, mapStats, responses, allTrips, pollCount, trackerPending>>

\* The tracker on its own, with time passing between its polls.
NextTracker == TrackerPoll \/ TrackerSettle \/ TrackerInterrupt \/ Clock

SpecTracker == Init /\ [][NextTracker]_vars

IsTrackerPoll(op) == op.op = "polled"

\* The response of the poll carries a list of movements.
ReturnsData(reply) ==
    /\ reply.settled = "fulfilled"
    /\ reply.ok
    /\ reply.json = "object"
    /\ "movements" \in DOMAIN reply.body

\* The trip ids of the response of the poll.
ResponseIds(reply) ==
    {reply.body.movements[i].tripId : i \in 1..Len(reply.body.movements)}

\* The kinds of the events a poll has emitted for a trip, in order.
EventsOf(events, id) ==
    LET own == SelectSeq(events, LAMBDA e : e.tripId = id)
    IN [i \in 1..Len(own) |-> own[i].event]

\* C37: a poll of the tracker whose response carries movements emits, for
\* each trip id of the response, exactly one event: CREATED when the trip
\* was not tracked, REAPPEARED when it was tracked and marked absent,
\* STILL_PRESENT when it was marked present; for each tracked trip that was
\* marked present and is not in the response it emits exactly DESTROYED,
\* and for any other trip nothing; a poll whose fetch yields null (a
\* rejection, an error status, a body that is no JSON, an empty array, an
\* object without movements) emits nothing and leaves allTrips as it was.
C37_EventClassification ==
    [][IsTrackerPoll(lastOp') =>
        IF ReturnsData(lastOp'.reply)
        THEN /\ lastOp'.processed
             /\ \A id \in TripIds :
                  EventsOf(lastOp'.events, id) =
                      IF id \in ResponseIds(lastOp'.reply)
                      THEN IF ~MapHas(allTrips, id) THEN <<"CREATED">>
                           ELSE IF ~MapGet(allTrips, id).present THEN <<"REAPPEARED">>
                           ELSE <<"STILL_PRESENT">>
                      ELSE IF MapHas(allTrips, id) /\ MapGet(allTrips, id).present
                           THEN <<"DESTROYED">>
                           ELSE <<>>
             /\ \A i \in 1..Len(lastOp'.events) : lastOp'.events[i].tripId \in TripIds
        ELSE /\ ~lastOp'.processed
             /\ lastOp'.events = <<>>
             /\ allTrips' = allTrips]_vars

\* One poll has reported a trip that came back and a trip that went missing.
C37_Witness ==
    /\ IsTrackerPoll(lastOp)
    /\ lastOp.processed
    /\ EventsOf(lastOp.events, "t2") = <<"REAPPEARED">>
    /\ EventsOf(lastOp.events, "t1") = <<"DESTROYED">>
    /\ MapGet(allTrips, "t2").present
    /\ ~MapGet(allTrips, "t1").present

\* The tracked trips that are marked absent.
AbsentTrips == {i \in 1..Len(allTrips) : ~allTrips[i].value.present}

\* C38: every tracked trip has reappearCount <= destroyCount <=
\* reappearCount + 1 and is marked present exactly when the two counts are
\* equal, so the true journey ends of the summary, total destroys minus
\* total reappears, is the number of trips marked absent.
C38_TrackerCounters ==
    /\ \A i \in 1..Len(allTrips) :
          LET trip == allTrips[i].value
          IN /\ trip.reappearCount <= trip.destroyCount
             /\ trip.destroyCount <= trip.reappearCount + 1
             /\ trip.present <=> (trip.destroyCount = trip.reappearCount)
    /\ printSummary(allTrips, pollCount).trueEnds = Cardinality(AbsentTrips)
    /\ lastOp.op = "summary" =>
          /\ lastOp.body.trueEnds = Cardinality(AbsentTrips)
          /\ lastOp.body.trueEnds = lastOp.body.totalDestroys - lastOp.body.totalReappears

\* The summary is printed when a trip has gone missing twice and come back
\* once, and the other trip is present.
C38_Witness ==
    /\ lastOp.op = "summary"
    /\ lastOp.body.tracked = 2
    /\ lastOp.body.totalDestroys = 2
    /\ lastOp.body.totalReappears = 1
    /\ lastOp.body.trueEnds = 1
    /\ \E i \in 1..Len(allTrips) :
          /\ allTrips[i].value.destroyCount = 2
          /\ allTrips[i].value.reappearCount = 1

====
